---------------------------- MODULE Spec2Model ----------------------------
(***************************************************************************)
(* Multi-agent finance assistant: the data-freshness and retrieval core.   *)
(*                                                                         *)
(*   - the expiring cache of APIAgent (api_agent.py): the dict self.cache, *)
(*     read through the lru_cache-decorated _get_cached_data;              *)
(*   - the bounded-concurrency fetcher APIAgent._fetch_concurrent_data:    *)
(*     one asyncio task per symbol behind asyncio.Semaphore(10), the two   *)
(*     blocking yfinance calls handed to a ThreadPoolExecutor of 4;        *)
(*   - the vector store RetrieverAgent (retriever_agent.py): a flat FAISS  *)
(*     index kept beside a Python list of documents, saved after every     *)
(*     mutation.                                                           *)
(*                                                                         *)
(* Time is in whole seconds.  Python's None is the record None; a missing  *)
(* dict key is NoEntry.                                                    *)
(***************************************************************************)
EXTENDS Integers, Sequences, FiniteSets

VARIABLES
    now,            \* datetime.now(), seconds
    cache,          \* APIAgent.cache: symbol -> (data, timestamp)
    lru,            \* memo of functools.lru_cache around _get_cached_data
    ret,            \* what the last cache operation was and returned
    phase,          \* _fetch_concurrent_data: "idle", "gather", "returned"
    symbols,        \* its argument
    tasks,          \* one fetch_with_semaphore task per position of symbols
    sem_value,      \* asyncio.Semaphore._value
    sem_waiters,    \* asyncio.Semaphore._waiters, oldest first
    pool_queue,     \* ThreadPoolExecutor work queue: tasks whose call waits
    pool_running,   \* tasks whose call a worker thread is running, oldest first
    combined_data,  \* the dict _fetch_concurrent_data returns
    calls,          \* the calls of _fetch_concurrent_data that run side by
                    \* side on one APIAgent, each with its own locals
    index,          \* RetrieverAgent.index: the vectors of the flat index
    documents,      \* RetrieverAgent.documents
    disk_index,     \* data/faiss_index.bin
    disk_docs,      \* data/documents.pkl
    store_op,       \* the last call on the store and its arguments
    coro,           \* the store coroutine the event loop is inside, and where
    reply,          \* the last value returned by a probe, query or analysis
    an_cache,       \* AnalysisAgent.cache: cache_key -> (analysis, timestamp)
    an_lru,         \* memo of functools.lru_cache around _get_cached_analysis
    client          \* app.py: the call of make_api_request in progress

(***************************************************************************)
(* Program constants.                                                      *)
(***************************************************************************)
cache_duration == 60          \* APIAgent.cache_duration
an_cache_duration == 30       \* AnalysisAgent.cache_duration
lru_maxsize == 100            \* @lru_cache(maxsize=100)
SecondsPerDay == 86400        \* range of timedelta.seconds
semaphore_limit == 10         \* asyncio.Semaphore(10)
max_workers == 4              \* ThreadPoolExecutor(max_workers=4)
RETRY_DELAY == 1              \* app.py: seconds, times the attempt's number

(***************************************************************************)
(* Bounds of the model.                                                    *)
(***************************************************************************)
MaxDays == 1                  \* the clock runs over days 0..MaxDays
MaxSymbols == 2               \* longest symbol list of the repeated calls
ManyCount == 11               \* length of the one long symbol list
MaxDocs == 2                  \* most documents the store is grown to
MaxBatch == 2                 \* longest list given to add_documents
CompletionWindow == 1         \* long list: the next call to finish is among
                              \* this many of the oldest running ones
MaxStocks == 3                \* most snapshots in a batch given to the analyzer
MaxPassages == 3              \* most passages of the first category of the context store
MaxFailing == 1               \* long list: the source fails only for this
                              \* many of the first symbols
MaxRetries == 3               \* largest max_retries given to make_api_request

\* The symbols the repeated calls ask for.
Symbols == {"AAPL", "GOOGL"}

\* Fourteen distinct symbols for the long list: asia_tech_stocks, then the
\* four of get_market_data.
AllSymbolsList ==
    <<"TSM", "BABA", "9988.HK", "BIDU", "9984.T", "035420.KS", "000660.KS",
      "2330.TW", "6758.T", "067000.KS", "AAPL", "GOOGL", "MSFT", "AMZN">>
AllSymbols == {AllSymbolsList[i] : i \in 1..Len(AllSymbolsList)}
ManySymbols == SubSeq(AllSymbolsList, 1, ManyCount)

SeqsUpTo(S, n) == UNION {[1..k -> S] : k \in 0..n}
SymbolLists == SeqsUpTo(Symbols, MaxSymbols)

None == [none |-> TRUE]
NoEntry == [absent |-> TRUE]

\* The instants the clock takes: around the cache duration, on each day.
Offsets == {0, cache_duration - 1, cache_duration}
Instants == {d * SecondsPerDay + o : d \in 0..MaxDays, o \in Offsets}

\* fast_info objects the quote source answers with: a full one, and one
\* that lacks the attribute regular_market_change.
FullInfo == [last_price |-> 150, regular_market_change |-> 2, last_volume |-> 1000]
PartialInfo == [last_price |-> 150, last_volume |-> 1000]
Infos == {FullInfo, PartialInfo}

hasattr(info, name) == name \in DOMAIN info

\* fetch_single's data dict: an attribute the info object lacks becomes 0.
build_data(info) ==
    [price  |-> IF hasattr(info, "last_price") THEN info.last_price ELSE 0,
     change |-> IF hasattr(info, "regular_market_change")
                THEN info.regular_market_change ELSE 0,
     volume |-> IF hasattr(info, "last_volume") THEN info.last_volume ELSE 0]

Datas == {build_data(i) : i \in Infos}

(***************************************************************************)
(* The expiring cache.                                                     *)
(***************************************************************************)
\* (a - b).seconds: the seconds field of a timedelta, the days dropped.
timedelta_seconds(a, b) == (a - b) % SecondsPerDay

\* The body of _get_cached_data, as it runs on a miss of the memo.
cached_data_body(c, symbol, t) ==
    IF c[symbol] # NoEntry
       /\ timedelta_seconds(t, c[symbol].timestamp) < cache_duration
    THEN c[symbol].data
    ELSE None

\* Position of key in the memo, 0 when it holds no entry for it.
lru_find(m, key) ==
    IF \E i \in 1..Len(m) : m[i].key = key
    THEN CHOOSE i \in 1..Len(m) : m[i].key = key
    ELSE 0

lru_without(m, i) == SubSeq(m, 1, i - 1) \o SubSeq(m, i + 1, Len(m))

\* functools.lru_cache: an entry of the memo is returned without running the
\* body and becomes the most recent one; a miss runs the body, stores the
\* result and drops the least recent entry when the memo is over maxsize.
lru_call(c, m, symbol, t) ==
    LET i == lru_find(m, symbol) IN
    IF i # 0
    THEN [result |-> m[i].result, lru |-> Append(lru_without(m, i), m[i])]
    ELSE LET r  == cached_data_body(c, symbol, t)
             m2 == Append(m, [key |-> symbol, result |-> r])
         IN  [result |-> r,
              lru    |-> IF Len(m2) > lru_maxsize THEN Tail(m2) ELSE m2]

\* APIAgent._get_cached_data(symbol) at time t: the result and the new memo.
_get_cached_data(c, m, symbol, t) == lru_call(c, m, symbol, t)

\* A store that leaves the dict as it was.
cache_store_nothing(c, symbol, data, t) == c

\* self.cache[symbol] = (data, datetime.now())
cache_store(c, symbol, data, t) ==
    [c EXCEPT ![symbol] = [data |-> data, timestamp |-> t]]

\* The market_data and news_data analyze is called with; the cache key made
\* of the hashes of their texts is the pair itself here.  Prices are whole,
\* changes in tenths.  test_input is the data of AnalysisAgent.health_check.
test_input ==
    [stocks |-> <<[symbol |-> "AAPL", price |-> 150, change |-> 15,
                   volume |-> 1000000]>>,
     articles |-> <<>>]
\* Another call's data: three snapshots and one article, by its sentiment.
market_input ==
    [stocks |-> <<[symbol |-> "TSM", price |-> 100, change |-> 10, volume |-> 10],
                  [symbol |-> "BABA", price |-> 150, change |-> 20, volume |-> 20],
                  [symbol |-> "BIDU", price |-> 120, change |-> 5, volume |-> 30]>>,
     articles |-> <<1>>]
AnalysisInputs == {test_input, market_input}

vars == <<now, cache, lru, ret, phase, symbols, tasks, sem_value, sem_waiters,
          pool_queue, pool_running, combined_data, calls,
          index, documents, disk_index, disk_docs, store_op,
          coro, reply, an_cache, an_lru, client>>
cache_vars == <<now, cache, lru, ret>>
fetch_vars == <<phase, symbols, tasks, sem_value, sem_waiters,
                pool_queue, pool_running, combined_data, calls>>

store_vars == <<index, documents, disk_index, disk_docs, store_op>>
analysis_vars == <<an_cache, an_lru>>
aux_vars == <<coro, reply, an_cache, an_lru, client>>

\* make_api_request has not been called.
NoRequest == [pc |-> "idle"]

\* No store coroutine is being executed.
NoFrame == [task |-> "none"]

EmptyDict == [k \in {} |-> None]

\* The calls that can run side by side, and the locals of one that has not
\* been made.
CallIds == {1, 2}
NoCall ==
    [phase |-> "idle", symbols |-> <<>>, tasks |-> <<>>,
     sem_value |-> semaphore_limit, sem_waiters |-> <<>>,
     combined_data |-> EmptyDict]

\* A file that does not exist, and one whose content cannot be read back.
NoFile == [file |-> "missing"]
TornFile == [file |-> "unreadable"]

Init ==
    /\ now = 0
    /\ cache = [s \in AllSymbols |-> NoEntry]
    /\ lru = <<>>
    /\ ret = [op |-> "none"]
    /\ phase = "idle"
    /\ symbols = <<>>
    /\ tasks = <<>>
    /\ sem_value = semaphore_limit
    /\ sem_waiters = <<>>
    /\ pool_queue = <<>>
    /\ pool_running = <<>>
    /\ combined_data = EmptyDict
    /\ calls = [c \in CallIds |-> NoCall]
    /\ index = <<>>
    /\ documents = <<>>
    /\ disk_index = NoFile
    /\ disk_docs = NoFile
    /\ store_op = [op |-> "none"]
    /\ coro = NoFrame
    /\ reply = [op |-> "none"]
    /\ an_cache = [k \in AnalysisInputs |-> NoEntry]
    /\ an_lru = <<>>
    /\ client = NoRequest

(***************************************************************************)
(* The cache driven directly: get, put, the clock, and the memo losing     *)
(* its oldest entry.                                                       *)
(***************************************************************************)
CacheGet(k) ==
    LET r == _get_cached_data(cache, lru, k, now) IN
    /\ lru' = r.lru
    /\ ret' = [op |-> "get", key |-> k, value |-> r.result, at |-> now]
    /\ UNCHANGED <<now, cache>>
    /\ UNCHANGED <<fetch_vars, store_vars, aux_vars>>

CachePut(k, d) ==
    /\ cache' = cache_store(cache, k, d, now)
    /\ ret' = [op |-> "put", key |-> k, value |-> d, at |-> now]
    /\ UNCHANGED <<now, lru>>
    /\ UNCHANGED <<fetch_vars, store_vars, aux_vars>>

Tick ==
    /\ \E t \in Instants : t > now /\ now' = t
    /\ UNCHANGED <<cache, lru, ret>>
    /\ UNCHANGED <<fetch_vars, store_vars, aux_vars>>

\* The memo is one per class and holds 100 entries: lookups of other keys
\* (other symbols, other APIAgent instances) push out the oldest entry.
LruEvict ==
    /\ lru # <<>>
    /\ lru' = Tail(lru)
    /\ UNCHANGED <<now, cache, ret>>
    /\ UNCHANGED <<fetch_vars, store_vars, aux_vars>>

NextCache ==
    \/ \E k \in Symbols : CacheGet(k)
    \/ \E k \in Symbols, d \in Datas : CachePut(k, d)
    \/ Tick
    \/ LruEvict

SpecCache == Init /\ [][NextCache]_vars

(***************************************************************************)
(* _fetch_concurrent_data.  The event loop runs one task at a time up to   *)
(* its next await; gather starts the tasks in list order.  A blocking call *)
(* handed to the executor waits in its queue until one of the workers is   *)
(* free, and its task goes on when the call has returned or raised.        *)
(***************************************************************************)
Raised == [raised |-> TRUE]

NewTask == [pc |-> "new", cached |-> None, info |-> None, result |-> EmptyDict]

dict1(k, v) == [x \in {k} |-> v]

\* dict.update
dict_update(d, r) ==
    [k \in DOMAIN d \cup DOMAIN r |-> IF k \in DOMAIN r THEN r[k] ELSE d[k]]

\* "if cached:" a data dict is never empty, None is false.
truthy(v) == v # None

\* A semaphore that never refuses a permit.
sem_locked_never(v, w) == FALSE

\* asyncio.Semaphore.locked
sem_locked(v, w) == v = 0 \/ w # <<>>

\* asyncio.Semaphore.release on leaving "async with": the permit goes to
\* the oldest waiter, which is made ready to run, or back to the counter.
sem_release(ts, v, w) ==
    IF w # <<>>
    THEN [tasks |-> [ts EXCEPT ![Head(w)].pc = "woken"],
          value |-> v, waiters |-> Tail(w)]
    ELSE [tasks |-> ts, value |-> v + 1, waiters |-> w]

Min(a, b) == IF a < b THEN a ELSE b

\* The free workers take the calls at the head of the queue.
pool_dispatch(q, running) ==
    LET k == Min(max_workers - Len(running), Len(q)) IN
    [queue |-> SubSeq(q, k + 1, Len(q)),
     running |-> running \o SubSeq(q, 1, k)]

\* The running calls without the one of task i, which has finished.
pool_finish(running, i) == SelectSeq(running, LAMBDA j : j # i)

\* Whether a worker is running the call of task i.
is_running(running, i) == \E n \in 1..Len(running) : running[n] = i

\* loop.run_in_executor(self.thread_pool, ...)
run_in_executor(q, running, i) == pool_dispatch(Append(q, i), running)

\* An except clause that returns an empty dict.
on_exception_empty(symbol) == EmptyDict

\* except Exception: return {symbol: None}
on_exception(symbol) == dict1(symbol, None)

\* fetch_single returns result and fetch_with_semaphore leaves "async
\* with"; v is the semaphore's value before the release.
TaskReturns(i, task, result, v) ==
    LET done == [task EXCEPT !.pc = "done", !.result = result]
        rel  == sem_release([tasks EXCEPT ![i] = done], v, sem_waiters)
    IN  /\ tasks' = rel.tasks
        /\ sem_value' = rel.value
        /\ sem_waiters' = rel.waiters

\* Task i, holding a permit (the semaphore's value is v), runs fetch_single
\* to its first await: the cache check, then either the return of the
\* cached data or the first blocking call, yf.Ticker(symbol).
fetch_single_start(i, v) ==
    LET symbol == symbols[i]
        r == _get_cached_data(cache, lru, symbol, now)
        t == [tasks[i] EXCEPT !.cached = r.result]
    IN  /\ lru' = r.lru
        /\ IF truthy(r.result)
           THEN /\ TaskReturns(i, t, dict1(symbol, r.result), v)
                /\ UNCHANGED <<pool_queue, pool_running>>
           ELSE LET p == run_in_executor(pool_queue, pool_running, i) IN
                /\ tasks' = [tasks EXCEPT ![i] = [t EXCEPT !.pc = "ticker"]]
                /\ pool_queue' = p.queue
                /\ pool_running' = p.running
                /\ sem_value' = v
                /\ UNCHANGED sem_waiters

\* _fetch_concurrent_data(syms) up to "await asyncio.gather(*tasks)".
BeginFetch(syms) ==
    /\ phase \in {"idle", "returned"}
    /\ phase' = "gather"
    /\ symbols' = syms
    /\ tasks' = [i \in 1..Len(syms) |-> NewTask]
    /\ sem_value' = semaphore_limit
    /\ sem_waiters' = <<>>
    /\ combined_data' = EmptyDict
    /\ UNCHANGED <<pool_queue, pool_running>>
    /\ UNCHANGED <<cache_vars, calls, store_vars, aux_vars>>

\* The first step of task i: "async with semaphore", then fetch_single.
StartTask(i) ==
    /\ phase = "gather"
    /\ tasks[i].pc = "new"
    /\ \A j \in 1..(i - 1) : tasks[j].pc # "new"
    /\ IF sem_locked(sem_value, sem_waiters)
       THEN /\ tasks' = [tasks EXCEPT ![i].pc = "sem"]
            /\ sem_waiters' = Append(sem_waiters, i)
            /\ UNCHANGED <<sem_value, lru, pool_queue, pool_running>>
       ELSE fetch_single_start(i, sem_value - 1)
    /\ UNCHANGED <<now, cache, ret, phase, symbols, combined_data, calls, store_vars, aux_vars>>

\* The loop's ready queue is first in, first out: the first steps of the
\* tasks gather created run before any callback that arrives later.
all_started == \A j \in 1..Len(tasks) : tasks[j].pc # "new"

\* Task i, handed a permit by a release, goes on into fetch_single.
ResumeWaiter(i) ==
    /\ phase = "gather"
    /\ all_started
    /\ tasks[i].pc = "woken"
    /\ fetch_single_start(i, sem_value)
    /\ UNCHANGED <<now, cache, ret, phase, symbols, combined_data, calls, store_vars, aux_vars>>

\* The worker running yf.Ticker(symbol) for task i is done: the task goes
\* on to the second blocking call, stock.fast_info, or to its except clause.
TickerDone(i, ok) ==
    /\ phase = "gather"
    /\ all_started
    /\ tasks[i].pc = "ticker"
    /\ is_running(pool_running, i)
    /\ IF ok
       THEN LET p == run_in_executor(pool_queue, pool_finish(pool_running, i), i) IN
            /\ tasks' = [tasks EXCEPT ![i].pc = "info"]
            /\ pool_queue' = p.queue
            /\ pool_running' = p.running
            /\ UNCHANGED <<sem_value, sem_waiters>>
       ELSE LET p == pool_dispatch(pool_queue, pool_finish(pool_running, i)) IN
            /\ TaskReturns(i, [tasks[i] EXCEPT !.info = Raised],
                           on_exception(symbols[i]), sem_value)
            /\ pool_queue' = p.queue
            /\ pool_running' = p.running
    /\ UNCHANGED <<now, cache, lru, ret, phase, symbols, combined_data, calls, store_vars, aux_vars>>

\* An except clause that forgets the symbol's entry.
on_fetch_error_drops(c, symbol) == [c EXCEPT ![symbol] = NoEntry]

\* The cache after the except clause of fetch_single: it writes nothing.
on_fetch_error(c, symbol) == c

\* The worker running stock.fast_info for task i is done.  With an info
\* object the task builds data, stores it in the cache and returns it; if
\* the call or a conversion raised, the task returns {symbol: None}.
InfoDone(i, info) ==
    /\ phase = "gather"
    /\ all_started
    /\ tasks[i].pc = "info"
    /\ is_running(pool_running, i)
    /\ LET p == pool_dispatch(pool_queue, pool_finish(pool_running, i))
           symbol == symbols[i]
           t == [tasks[i] EXCEPT !.info = info]
       IN  /\ pool_queue' = p.queue
           /\ pool_running' = p.running
           /\ IF info = Raised
              THEN /\ TaskReturns(i, t, on_exception(symbol), sem_value)
                   /\ cache' = on_fetch_error(cache, symbol)
              ELSE /\ cache' = cache_store(cache, symbol, build_data(info), now)
                   /\ TaskReturns(i, t, dict1(symbol, build_data(info)), sem_value)
    /\ UNCHANGED <<now, lru, ret, phase, symbols, combined_data, calls, store_vars, aux_vars>>

RECURSIVE combine_abort(_, _)
\* A merge loop that stops at the first failed result.
combine_abort(results, acc) ==
    IF results = <<>> THEN acc
    ELSE IF \E k \in DOMAIN Head(results) : Head(results)[k] = None THEN acc
    ELSE combine_abort(Tail(results), dict_update(acc, Head(results)))

RECURSIVE combine(_, _)
\* combined_data = {}; for result in results: combined_data.update(result)
combine(results, acc) ==
    IF results = <<>> THEN acc
    ELSE combine(Tail(results), dict_update(acc, Head(results)))

\* gather has every task's result: the dicts are merged in list order and
\* _fetch_concurrent_data returns.
GatherReturn ==
    /\ phase = "gather"
    /\ \A i \in 1..Len(tasks) : tasks[i].pc = "done"
    /\ combined_data' = combine([i \in 1..Len(tasks) |-> tasks[i].result], EmptyDict)
    /\ phase' = "returned"
    /\ UNCHANGED <<symbols, tasks, sem_value, sem_waiters, pool_queue, pool_running>>
    /\ UNCHANGED <<cache_vars, calls, store_vars, aux_vars>>

TaskIds == 1..Len(tasks)

\* Repeated calls over short symbol lists, followed through the first day
\* of the clock.
Next ==
    \/ \E syms \in SymbolLists : BeginFetch(syms)
    \/ \E i \in TaskIds : StartTask(i)
    \/ \E i \in TaskIds, ok \in BOOLEAN : TickerDone(i, ok)
    \/ \E i \in TaskIds, info \in Infos \cup {Raised} : InfoDone(i, info)
    \/ GatherReturn
    \/ (Tick /\ now' < SecondsPerDay)
    \/ LruEvict

Spec == Init /\ [][Next]_vars

\* One call over a list longer than the semaphore's limit.
\* The long call's environment: the call that finishes next is one of the
\* CompletionWindow oldest running ones, and only the first MaxFailing
\* symbols can fail.
in_window(i) ==
    \E n \in 1..Min(CompletionWindow, Len(pool_running)) : pool_running[n] = i
may_fail(i) == i <= MaxFailing

NextMany ==
    \/ phase = "idle" /\ BeginFetch(ManySymbols)
    \/ \E i \in TaskIds : StartTask(i)
    \/ \E i \in TaskIds : ResumeWaiter(i)
    \/ \E i \in TaskIds, ok \in BOOLEAN :
          in_window(i) /\ (ok \/ may_fail(i)) /\ TickerDone(i, ok)
    \/ \E i \in TaskIds, info \in {FullInfo, Raised} :
          in_window(i) /\ (info # Raised \/ may_fail(i)) /\ InfoDone(i, info)
    \/ GatherReturn

SpecMany == Init /\ [][NextMany]_vars

\* Calls whose requests the source may leave unanswered.  The event loop
\* runs every task that is ready and lets gather return when all are done;
\* nothing in fetch_single bounds the wait for a run_in_executor future
\* (self.timeout is given to the aiohttp session only), so a request ends
\* when the source answers or raises, and not otherwise.
NextHang ==
    \/ \E syms \in SymbolLists : BeginFetch(syms)
    \/ \E i \in TaskIds : StartTask(i)
    \/ \E i \in TaskIds, ok \in BOOLEAN : TickerDone(i, ok)
    \/ \E i \in TaskIds, info \in Infos \cup {Raised} : InfoDone(i, info)
    \/ GatherReturn

FairLoop ==
    /\ WF_vars(\E i \in TaskIds : StartTask(i))
    /\ WF_vars(GatherReturn)

SpecHang == Init /\ [][NextHang]_vars /\ FairLoop

(***************************************************************************)
(* Calls of _fetch_concurrent_data side by side on one APIAgent, as two    *)
(* request handlers of one event loop make them.  Each call has its own    *)
(* locals, the semaphore of line 83 among them; the cache, the memo and    *)
(* the thread pool belong to the agent.  A request is named in the pool by *)
(* its call and its task.                                                  *)
(***************************************************************************)
\* The symbol lists of the calls.
CallLists == {ManySymbols} \cup (SymbolLists \ {<<>>})

\* fetch_single returns result in call k and fetch_with_semaphore leaves
\* "async with": the locals of the call after it.
call_task_returns(k, i, task, result, v) ==
    LET done == [task EXCEPT !.pc = "done", !.result = result]
        rel  == sem_release([k.tasks EXCEPT ![i] = done], v, k.sem_waiters)
    IN  [k EXCEPT !.tasks = rel.tasks, !.sem_value = rel.value,
                  !.sem_waiters = rel.waiters]

\* Task i of call c, holding a permit of the call's semaphore, runs
\* fetch_single to its first await.
call_fetch_single_start(c, i, v) ==
    LET k == calls[c]
        symbol == k.symbols[i]
        r == _get_cached_data(cache, lru, symbol, now)
        t == [k.tasks[i] EXCEPT !.cached = r.result]
    IN  /\ lru' = r.lru
        /\ IF truthy(r.result)
           THEN /\ calls' = [calls EXCEPT ![c] =
                                call_task_returns(k, i, t, dict1(symbol, r.result), v)]
                /\ UNCHANGED <<pool_queue, pool_running>>
           ELSE LET p == run_in_executor(pool_queue, pool_running, <<c, i>>) IN
                /\ calls' = [calls EXCEPT ![c] =
                                [k EXCEPT !.tasks[i] = [t EXCEPT !.pc = "ticker"],
                                          !.sem_value = v]]
                /\ pool_queue' = p.queue
                /\ pool_running' = p.running

\* Every task that gather has created, in any call, has run its first step.
calls_all_started ==
    \A c \in CallIds : \A j \in 1..Len(calls[c].tasks) : calls[c].tasks[j].pc # "new"

\* Call c is made, once the tasks of the calls made before have run their
\* first steps: it runs up to "await asyncio.gather(*tasks)" with a semaphore
\* of its own.
CallBegin(c, syms) ==
    /\ calls[c].phase = "idle"
    /\ calls_all_started
    /\ calls' = [calls EXCEPT ![c] =
                    [phase |-> "gather", symbols |-> syms,
                     tasks |-> [i \in 1..Len(syms) |-> NewTask],
                     sem_value |-> semaphore_limit, sem_waiters |-> <<>>,
                     combined_data |-> EmptyDict]]
    /\ UNCHANGED <<phase, symbols, tasks, sem_value, sem_waiters, pool_queue,
                   pool_running, combined_data>>
    /\ UNCHANGED <<cache_vars, store_vars, aux_vars>>

\* The first step of task i of call c.
CallStartTask(c, i) ==
    LET k == calls[c] IN
    /\ k.phase = "gather"
    /\ k.tasks[i].pc = "new"
    /\ \A j \in 1..(i - 1) : k.tasks[j].pc # "new"
    /\ IF sem_locked(k.sem_value, k.sem_waiters)
       THEN /\ calls' = [calls EXCEPT ![c] =
                            [k EXCEPT !.tasks[i].pc = "sem",
                                      !.sem_waiters = Append(k.sem_waiters, i)]]
            /\ UNCHANGED <<lru, pool_queue, pool_running>>
       ELSE call_fetch_single_start(c, i, k.sem_value - 1)
    /\ UNCHANGED <<now, cache, ret, phase, symbols, tasks, sem_value, sem_waiters,
                   combined_data, store_vars, aux_vars>>

\* Task i of call c, handed a permit by a release in its call, goes on.
CallResumeWaiter(c, i) ==
    /\ calls[c].phase = "gather"
    /\ calls_all_started
    /\ calls[c].tasks[i].pc = "woken"
    /\ call_fetch_single_start(c, i, calls[c].sem_value)
    /\ UNCHANGED <<now, cache, ret, phase, symbols, tasks, sem_value, sem_waiters,
                   combined_data, store_vars, aux_vars>>

\* The worker running yf.Ticker for task i of call c is done.
CallTickerDone(c, i, ok) ==
    LET k == calls[c] IN
    /\ k.phase = "gather"
    /\ calls_all_started
    /\ k.tasks[i].pc = "ticker"
    /\ is_running(pool_running, <<c, i>>)
    /\ IF ok
       THEN LET p == run_in_executor(pool_queue,
                                     pool_finish(pool_running, <<c, i>>), <<c, i>>)
            IN  /\ calls' = [calls EXCEPT ![c].tasks[i].pc = "info"]
                /\ pool_queue' = p.queue
                /\ pool_running' = p.running
       ELSE LET p == pool_dispatch(pool_queue, pool_finish(pool_running, <<c, i>>))
            IN  /\ calls' = [calls EXCEPT ![c] =
                                call_task_returns(k, i,
                                    [k.tasks[i] EXCEPT !.info = Raised],
                                    on_exception(k.symbols[i]), k.sem_value)]
                /\ pool_queue' = p.queue
                /\ pool_running' = p.running
    /\ UNCHANGED <<now, cache, lru, ret, phase, symbols, tasks, sem_value,
                   sem_waiters, combined_data, store_vars, aux_vars>>

\* The worker running stock.fast_info for task i of call c is done.
CallInfoDone(c, i, info) ==
    LET k == calls[c]
        p == pool_dispatch(pool_queue, pool_finish(pool_running, <<c, i>>))
        symbol == k.symbols[i]
        t == [k.tasks[i] EXCEPT !.info = info]
    IN  /\ k.phase = "gather"
        /\ calls_all_started
        /\ k.tasks[i].pc = "info"
        /\ is_running(pool_running, <<c, i>>)
        /\ pool_queue' = p.queue
        /\ pool_running' = p.running
        /\ IF info = Raised
           THEN /\ calls' = [calls EXCEPT ![c] =
                                call_task_returns(k, i, t, on_exception(symbol),
                                                  k.sem_value)]
                /\ UNCHANGED cache
           ELSE /\ cache' = cache_store(cache, symbol, build_data(info), now)
                /\ calls' = [calls EXCEPT ![c] =
                                call_task_returns(k, i, t,
                                    dict1(symbol, build_data(info)), k.sem_value)]
        /\ UNCHANGED <<now, lru, ret, phase, symbols, tasks, sem_value,
                       sem_waiters, combined_data, store_vars, aux_vars>>

\* gather of call c has every result: the call merges them and returns.
CallGatherReturn(c) ==
    LET k == calls[c] IN
    /\ k.phase = "gather"
    /\ \A i \in 1..Len(k.tasks) : k.tasks[i].pc = "done"
    /\ calls' = [calls EXCEPT ![c] =
                    [k EXCEPT !.phase = "returned",
                              !.combined_data =
                                 combine([i \in 1..Len(k.tasks) |-> k.tasks[i].result],
                                         EmptyDict)]]
    /\ UNCHANGED <<phase, symbols, tasks, sem_value, sem_waiters, pool_queue,
                   pool_running, combined_data>>
    /\ UNCHANGED <<cache_vars, store_vars, aux_vars>>

\* The request that finishes next is one of the CompletionWindow oldest
\* running ones.
request_in_window(id) ==
    \E n \in 1..Min(CompletionWindow, Len(pool_running)) : pool_running[n] = id

\* Two calls, each made once; the source fails only for the first
\* MaxFailing symbols of a call.
NextCalls ==
    \/ \E c \in CallIds, syms \in CallLists : CallBegin(c, syms)
    \/ \E c \in CallIds : \E i \in 1..Len(calls[c].tasks) : CallStartTask(c, i)
    \/ \E c \in CallIds : \E i \in 1..Len(calls[c].tasks) : CallResumeWaiter(c, i)
    \/ \E c \in CallIds : \E i \in 1..Len(calls[c].tasks), ok \in BOOLEAN :
          request_in_window(<<c, i>>) /\ (ok \/ may_fail(i)) /\ CallTickerDone(c, i, ok)
    \/ \E c \in CallIds : \E i \in 1..Len(calls[c].tasks), info \in {FullInfo, Raised} :
          request_in_window(<<c, i>>) /\ (info # Raised \/ may_fail(i))
             /\ CallInfoDone(c, i, info)
    \/ \E c \in CallIds : CallGatherReturn(c)

SpecCalls == Init /\ [][NextCalls]_vars

(***************************************************************************)
(* get_market_data: one call of _fetch_concurrent_data over a fixed list,  *)
(* then the filter and the placeholder.  Nothing is awaited after gather   *)
(* has the results, so the merge, the filter and the return are one step.  *)
(***************************************************************************)
\* symbols = ["AAPL", "GOOGL", "MSFT", "AMZN"]
market_symbols == <<"AAPL", "GOOGL", "MSFT", "AMZN">>

\* The placeholder dict; the change 1.5 in tenths.
sample_data ==
    [k \in {"SAMPLE"} |-> [price |-> 100, change |-> 15, volume |-> 1000000]]

\* A filter that keeps every entry.
drop_none_keeps(d) == d

\* {k: v for k, v in data.items() if v is not None}
drop_none(d) == [k \in {x \in DOMAIN d : d[x] # None} |-> d[k]]

\* get_market_data up to "await self._fetch_concurrent_data(symbols)" and
\* into it.
get_market_data_begin ==
    /\ BeginFetch(market_symbols)

\* gather has every result: _fetch_concurrent_data returns the merged dict,
\* get_market_data filters it and returns.
get_market_data_return ==
    /\ phase = "gather"
    /\ \A i \in 1..Len(tasks) : tasks[i].pc = "done"
    /\ LET fetched == combine([i \in 1..Len(tasks) |-> tasks[i].result], EmptyDict)
           data == drop_none(fetched)
       IN  /\ combined_data' = fetched
           /\ reply' = [op |-> "market_data", raised |-> FALSE,
                        fetched |-> fetched,
                        result |-> [stocks |-> IF DOMAIN data = {} THEN sample_data
                                               ELSE data,
                                    timestamp |-> now]]
    /\ phase' = "returned"
    /\ UNCHANGED <<symbols, tasks, sem_value, sem_waiters, pool_queue, pool_running>>
    /\ UNCHANGED <<client, cache_vars, calls, store_vars, coro, analysis_vars>>

\* Opening the aiohttp session raises: the except clause of get_market_data
\* returns the placeholder and nothing is fetched.
get_market_data_raises ==
    /\ phase \in {"idle", "returned"}
    /\ reply' = [op |-> "market_data", raised |-> TRUE, fetched |-> EmptyDict,
                 result |-> [stocks |-> sample_data, timestamp |-> now]]
    /\ UNCHANGED <<client, cache_vars, fetch_vars, store_vars, coro, analysis_vars>>

\* Calls of get_market_data one after the other; the source answers in full
\* or raises.
NextMarket ==
    \/ get_market_data_begin
    \/ \E i \in TaskIds : StartTask(i)
    \/ \E i \in TaskIds, ok \in BOOLEAN : TickerDone(i, ok)
    \/ \E i \in TaskIds, info \in {FullInfo, Raised} : InfoDone(i, info)
    \/ get_market_data_return
    \/ get_market_data_raises
    \/ LruEvict

SpecMarket == Init /\ [][NextMarket]_vars

(***************************************************************************)
(* The vector store.  A flat FAISS index is the sequence of its vectors; a *)
(* vector's id is its position.  Positions are counted from 1 here, from 0 *)
(* in the code.  None of add_documents, update_document, delete_document   *)
(* awaits anything: each runs as one step of the event loop.               *)
(***************************************************************************)
Ids == {"a", "b"}
Contents == {"x", "y"}

\* The dicts given to add_documents: with an id and a content, and one with
\* an id only.
InputDocs == {[id |-> i, content |-> c] : i \in Ids, c \in Contents}
                \cup {[id |-> "b"]}
Batches == SeqsUpTo(InputDocs, MaxBatch)

\* doc.get("content", "")
doc_content(doc) == IF "content" \in DOMAIN doc THEN doc.content ELSE ""

\* self.model.encode: one fixed vector per text.
embed(text) ==
    CASE text = ""  -> <<0, 0>>
      [] text = "x" -> <<1, 0>>
      [] text = "y" -> <<0, 1>>

\* self.model.encode(texts)
encode(texts) == [i \in 1..Len(texts) |-> embed(texts[i])]

\* index.add(vectors): the vectors go to the end.
faiss_add(idx, vectors) == idx \o vectors

\* A remove_ids that drops the last vector, whatever id is given.
faiss_remove_last(idx, pos) ==
    IF idx = <<>> THEN idx ELSE SubSeq(idx, 1, Len(idx) - 1)

\* index.remove_ids([pos]) on a flat index: the vector at that position is
\* dropped and the later ones move down by one; an id the index does not
\* hold removes nothing.
faiss_remove_ids(idx, pos) ==
    IF pos \in 1..Len(idx)
    THEN SubSeq(idx, 1, pos - 1) \o SubSeq(idx, pos + 1, Len(idx))
    ELSE idx

\* A pop that leaves the list as it is.
list_pop_nothing(docs, pos) == docs

\* self.documents.pop(doc_idx)
list_pop(docs, pos) == SubSeq(docs, 1, pos - 1) \o SubSeq(docs, pos + 1, Len(docs))

\* A search that settles on the last document when none has the id.
find_doc_or_last(docs, doc_id) ==
    IF \E i \in 1..Len(docs) : docs[i].id = doc_id
    THEN CHOOSE i \in 1..Len(docs) :
            /\ docs[i].id = doc_id
            /\ \A j \in 1..(i - 1) : docs[j].id # doc_id
    ELSE Len(docs)

\* The loop over enumerate(self.documents): the first position whose
\* document has the id, 0 for doc_idx = None.
find_doc(docs, doc_id) ==
    IF \E i \in 1..Len(docs) : docs[i].id = doc_id
    THEN CHOOSE i \in 1..Len(docs) :
            /\ docs[i].id = doc_id
            /\ \A j \in 1..(i - 1) : docs[j].id # doc_id
    ELSE 0

\* How a call of _save_index can end: both files written; write_index
\* raised, leaving the index file as it was or unreadable; the index file
\* written and then open() or pickle.dump raised, leaving the documents
\* file as it was or unreadable.
SaveOutcomes == {"saved", "index_kept", "index_torn", "docs_kept", "docs_torn"}

\* The length of a vector: self.embedding_size, 384 in the code, the length
\* of the vectors of embed here.
embedding_size == Len(embed(""))

\* The components of the vectors of a flat index, one vector after the
\* other, as the index keeps them and faiss.write_index writes them.
RECURSIVE flat(_)
flat(idx) == IF idx = <<>> THEN <<>> ELSE Head(idx) \o flat(Tail(idx))

\* faiss.write_index: the dimension, the number of vectors, the components.
write_index(idx) == [d |-> embedding_size, ntotal |-> Len(idx), xb |-> flat(idx)]

\* faiss.read_index of a readable file.
read_index(f) ==
    [i \in 1..f.ntotal |-> SubSeq(f.xb, (i - 1) * f.d + 1, i * f.d)]

\* pickle.dump and pickle.load of the document list.
pickle_dump(docs) == [pickled |-> docs]
pickle_load(f) == f.pickled

\* _save_index: the two files after the call.
_save_index(idx, docs, d_index, d_docs, outcome) ==
    CASE outcome = "saved"      -> [index |-> write_index(idx), docs |-> pickle_dump(docs)]
      [] outcome = "index_kept" -> [index |-> d_index, docs |-> d_docs]
      [] outcome = "index_torn" -> [index |-> TornFile, docs |-> d_docs]
      [] outcome = "docs_kept"  -> [index |-> write_index(idx), docs |-> d_docs]
      [] outcome = "docs_torn"  -> [index |-> write_index(idx), docs |-> TornFile]

Save(idx, docs, outcome) ==
    LET f == _save_index(idx, docs, disk_index, disk_docs, outcome) IN
    /\ disk_index' = f.index
    /\ disk_docs' = f.docs

\* How a mutation can go: self.model.encode raises, or it does not and
\* _save_index ends in one of its ways.
EncodeRaises == "encode_raises"

\* index.add raises, as it does on the array of an empty batch.
AddRaises == "add_raises"

\* add_documents(batch).  index.add raises on the array of an empty batch,
\* which has no second dimension.  When it or encode raises the except
\* clause leaves the store as it was.
add_documents(batch, how) ==
    /\ Len(documents) + Len(batch) <= MaxDocs
    /\ Len(index) + Len(batch) <= MaxDocs
    /\ store_op' = [op |-> "add",
                    how |-> IF how # EncodeRaises /\ batch = <<>>
                            THEN AddRaises ELSE how]
    /\ IF how # EncodeRaises /\ batch # <<>>
       THEN LET texts == [i \in 1..Len(batch) |-> doc_content(batch[i])]
                idx == faiss_add(index, encode(texts))
                docs == documents \o batch
            IN  /\ index' = idx
                /\ documents' = docs
                /\ Save(idx, docs, how)
       ELSE UNCHANGED <<index, documents, disk_index, disk_docs>>
    /\ UNCHANGED <<cache_vars, fetch_vars, aux_vars>>

\* An update that has removed the old vector when encode raises.
on_encode_error_removed(idx, doc_idx) == faiss_remove_ids(idx, doc_idx)

\* The index when encode raises in update_document: the call comes before
\* index.remove_ids, so the index is as it was.
on_encode_error(idx, doc_idx) == idx

\* update_document(doc_id, content)
update_document(doc_id, content, how) ==
    LET doc_idx == find_doc(documents, doc_id) IN
    /\ store_op' = [op |-> "update", id |-> doc_id, content |-> content,
                    doc_idx |-> doc_idx, how |-> how]
    /\ IF doc_idx # 0 /\ how # EncodeRaises
       THEN LET new_embedding == encode(<<content>>)
                idx == faiss_add(faiss_remove_ids(index, doc_idx), new_embedding)
                docs == [documents EXCEPT ![doc_idx] =
                            [id |-> documents[doc_idx].id, content |-> content,
                             timestamp |-> now]]
            IN  /\ index' = idx
                /\ documents' = docs
                /\ Save(idx, docs, how)
       ELSE IF doc_idx # 0
       THEN /\ index' = on_encode_error(index, doc_idx)
            /\ UNCHANGED <<documents, disk_index, disk_docs>>
       ELSE UNCHANGED <<index, documents, disk_index, disk_docs>>
    /\ UNCHANGED <<cache_vars, fetch_vars, aux_vars>>

\* delete_document(doc_id)
delete_document(doc_id, how) ==
    LET doc_idx == find_doc(documents, doc_id) IN
    /\ store_op' = [op |-> "delete", id |-> doc_id, doc_idx |-> doc_idx]
    /\ IF doc_idx # 0
       THEN LET idx == faiss_remove_ids(index, doc_idx)
                docs == list_pop(documents, doc_idx)
            IN  /\ index' = idx
                /\ documents' = docs
                /\ Save(idx, docs, how)
       ELSE UNCHANGED <<index, documents, disk_index, disk_docs>>
    /\ UNCHANGED <<cache_vars, fetch_vars, aux_vars>>

\* The ways a mutation goes that are followed here: the save succeeds, or
\* pickle.dump raises after the index file is written.
StoreOutcomes == {"saved", "docs_torn"}

\* The store under adds, updates and deletes.
NextStore ==
    \/ \E batch \in Batches, how \in StoreOutcomes \cup {EncodeRaises} :
          add_documents(batch, how)
    \/ \E doc_id \in Ids, content \in Contents,
          how \in StoreOutcomes \cup {EncodeRaises} :
          update_document(doc_id, content, how)
    \/ \E doc_id \in Ids, how \in StoreOutcomes : delete_document(doc_id, how)

SpecStore == Init /\ [][NextStore]_vars

\* The store built by adds alone, and deletes.
NextAddDelete ==
    \/ \E batch \in Batches, how \in StoreOutcomes \cup {EncodeRaises} :
          add_documents(batch, how)
    \/ \E doc_id \in Ids, how \in StoreOutcomes : delete_document(doc_id, how)

SpecAddDelete == Init /\ [][NextAddDelete]_vars

(***************************************************************************)
(* The store across restarts: the files written by _save_index are read   *)
(* back by _load_index when RetrieverAgent is constructed again.           *)
(***************************************************************************)
exists(f) == f # NoFile
readable(f) == f # NoFile /\ f # TornFile

\* A handler that keeps the index read before the failure.
on_load_error_keep(loaded) == loaded

\* The except clause of _load_index: a new, empty index.
on_load_error(loaded) == <<>>

\* A load that reads the index file and leaves the document list empty.
load_index_only(d_index, d_docs) ==
    IF readable(d_index) THEN [index |-> read_index(d_index), documents |-> <<>>]
    ELSE [index |-> <<>>, documents |-> <<>>]

\* _load_index on the store __init__ has just made (documents = []): the
\* index and the documents it leaves.
_load_index(d_index, d_docs) ==
    IF exists(d_index) /\ exists(d_docs)
    THEN IF ~readable(d_index)
         THEN [index |-> on_load_error(<<>>), documents |-> <<>>]
         ELSE IF ~readable(d_docs)
         THEN [index |-> on_load_error(read_index(d_index)), documents |-> <<>>]
         ELSE [index |-> read_index(d_index), documents |-> pickle_load(d_docs)]
    ELSE [index |-> <<>>, documents |-> <<>>]

\* RetrieverAgent.__init__ in a new process on the same data directory.
retriever_init ==
    LET loaded == _load_index(disk_index, disk_docs) IN
    /\ index' = loaded.index
    /\ documents' = loaded.documents
    /\ store_op' = [op |-> "load"]
    /\ UNCHANGED <<disk_index, disk_docs>>
    /\ UNCHANGED <<cache_vars, fetch_vars, aux_vars>>

\* One of the two files is removed between two runs.
LoseFile(which) ==
    /\ \/ which = "index" /\ exists(disk_index) /\ disk_index' = NoFile
                          /\ UNCHANGED disk_docs
       \/ which = "docs" /\ exists(disk_docs) /\ disk_docs' = NoFile
                         /\ UNCHANGED disk_index
    /\ UNCHANGED <<index, documents, store_op>>
    /\ UNCHANGED <<cache_vars, fetch_vars, aux_vars>>

PersistDocs == {[id |-> "a", content |-> "x"], [id |-> "b", content |-> "y"]}
PersistBatches == SeqsUpTo(PersistDocs, MaxBatch)

\* Adds whose save ends in any of its ways, lost files, restarts.
NextPersist ==
    \/ \E batch \in PersistBatches, how \in SaveOutcomes : add_documents(batch, how)
    \/ \E which \in {"index", "docs"} : LoseFile(which)
    \/ retriever_init

SpecPersist == Init /\ [][NextPersist]_vars

(***************************************************************************)
(* The store's coroutines statement by statement.  The event loop is       *)
(* inside at most one coroutine; it can turn to another task only when     *)
(* that coroutine returns or stands at an await.                           *)
(***************************************************************************)
\* A coroutine that could be left at any statement.
at_await_always(frame) == TRUE

\* Whether the coroutine stands at an await: the bodies of add_documents,
\* update_document and delete_document, and _save_index, contain none, and
\* neither does the body of AnalysisAgent.analyze.
at_await(frame) == FALSE

\* Whether the event loop can run another task now.
can_switch(frame) == frame = NoFrame \/ at_await(frame)

\* The coroutine returns (or its except clause has printed the error).
coro_return(op) ==
    /\ coro' = NoFrame
    /\ store_op' = op

\* await add_documents(batch): the call is made.
add_begin(batch, how) ==
    /\ coro = NoFrame
    /\ Len(documents) + Len(batch) <= MaxDocs
    /\ Len(index) + Len(batch) <= MaxDocs
    /\ coro' = [task |-> "add", pc |-> "encode", batch |-> batch, how |-> how]
    /\ UNCHANGED <<analysis_vars, store_vars, reply, client, cache_vars, fetch_vars>>

\* The next statement of add_documents.
add_step ==
    /\ coro # NoFrame /\ coro.task = "add"
    /\ LET texts == [i \in 1..Len(coro.batch) |-> doc_content(coro.batch[i])] IN
       CASE coro.pc = "encode" ->
              IF coro.how = EncodeRaises
              THEN /\ coro_return([op |-> "add", how |-> EncodeRaises])
                   /\ UNCHANGED <<index, documents, disk_index, disk_docs>>
              ELSE /\ coro' = [coro EXCEPT !.pc = "index_add"]
                   /\ UNCHANGED store_vars
         [] coro.pc = "index_add" ->
              IF coro.batch = <<>>
              THEN /\ coro_return([op |-> "add", how |-> AddRaises])
                   /\ UNCHANGED <<index, documents, disk_index, disk_docs>>
              ELSE /\ index' = faiss_add(index, encode(texts))
                   /\ coro' = [coro EXCEPT !.pc = "extend"]
                   /\ UNCHANGED <<documents, disk_index, disk_docs, store_op>>
         [] coro.pc = "extend" ->
              /\ documents' = documents \o coro.batch
              /\ coro' = [coro EXCEPT !.pc = "save"]
              /\ UNCHANGED <<index, disk_index, disk_docs, store_op>>
         [] coro.pc = "save" ->
              /\ Save(index, documents, coro.how)
              /\ coro_return([op |-> "add", how |-> coro.how])
              /\ UNCHANGED <<index, documents>>
    /\ UNCHANGED <<analysis_vars, reply, client, cache_vars, fetch_vars>>

\* await update_document(doc_id, content): the call is made.
update_begin(doc_id, content, how) ==
    /\ coro = NoFrame
    /\ coro' = [task |-> "update", pc |-> "find", id |-> doc_id,
                content |-> content, how |-> how, doc_idx |-> 0]
    /\ UNCHANGED <<analysis_vars, store_vars, reply, client, cache_vars, fetch_vars>>

\* The next statement of update_document.
update_step ==
    /\ coro # NoFrame /\ coro.task = "update"
    /\ LET done == [op |-> "update", id |-> coro.id, content |-> coro.content,
                    doc_idx |-> coro.doc_idx, how |-> coro.how]
       IN
       CASE coro.pc = "find" ->
              LET doc_idx == find_doc(documents, coro.id) IN
              IF doc_idx = 0
              THEN /\ coro_return(done)
                   /\ UNCHANGED <<index, documents, disk_index, disk_docs>>
              ELSE /\ coro' = [coro EXCEPT !.pc = "encode", !.doc_idx = doc_idx]
                   /\ UNCHANGED store_vars
         [] coro.pc = "encode" ->
              IF coro.how = EncodeRaises
              THEN /\ coro_return(done)
                   /\ UNCHANGED <<index, documents, disk_index, disk_docs>>
              ELSE /\ coro' = [coro EXCEPT !.pc = "remove_ids"]
                   /\ UNCHANGED store_vars
         [] coro.pc = "remove_ids" ->
              /\ index' = faiss_remove_ids(index, coro.doc_idx)
              /\ coro' = [coro EXCEPT !.pc = "index_add"]
              /\ UNCHANGED <<documents, disk_index, disk_docs, store_op>>
         [] coro.pc = "index_add" ->
              /\ index' = faiss_add(index, encode(<<coro.content>>))
              /\ coro' = [coro EXCEPT !.pc = "set_fields"]
              /\ UNCHANGED <<documents, disk_index, disk_docs, store_op>>
         [] coro.pc = "set_fields" ->
              /\ documents' = [documents EXCEPT ![coro.doc_idx] =
                                  [id |-> documents[coro.doc_idx].id,
                                   content |-> coro.content, timestamp |-> now]]
              /\ coro' = [coro EXCEPT !.pc = "save"]
              /\ UNCHANGED <<index, disk_index, disk_docs, store_op>>
         [] coro.pc = "save" ->
              /\ Save(index, documents, coro.how)
              /\ coro_return(done)
              /\ UNCHANGED <<index, documents>>
    /\ UNCHANGED <<analysis_vars, reply, client, cache_vars, fetch_vars>>

\* await delete_document(doc_id): the call is made.
delete_begin(doc_id, how) ==
    /\ coro = NoFrame
    /\ coro' = [task |-> "delete", pc |-> "find", id |-> doc_id, how |-> how,
                doc_idx |-> 0]
    /\ UNCHANGED <<analysis_vars, store_vars, reply, client, cache_vars, fetch_vars>>

\* The next statement of delete_document.
delete_step ==
    /\ coro # NoFrame /\ coro.task = "delete"
    /\ LET done == [op |-> "delete", id |-> coro.id, doc_idx |-> coro.doc_idx] IN
       CASE coro.pc = "find" ->
              LET doc_idx == find_doc(documents, coro.id) IN
              IF doc_idx = 0
              THEN /\ coro_return(done)
                   /\ UNCHANGED <<index, documents, disk_index, disk_docs>>
              ELSE /\ coro' = [coro EXCEPT !.pc = "remove_ids", !.doc_idx = doc_idx]
                   /\ UNCHANGED store_vars
         [] coro.pc = "remove_ids" ->
              /\ index' = faiss_remove_ids(index, coro.doc_idx)
              /\ coro' = [coro EXCEPT !.pc = "pop"]
              /\ UNCHANGED <<documents, disk_index, disk_docs, store_op>>
         [] coro.pc = "pop" ->
              /\ documents' = list_pop(documents, coro.doc_idx)
              /\ coro' = [coro EXCEPT !.pc = "save"]
              /\ UNCHANGED <<index, disk_index, disk_docs, store_op>>
         [] coro.pc = "save" ->
              /\ Save(index, documents, coro.how)
              /\ coro_return(done)
              /\ UNCHANGED <<index, documents>>
    /\ UNCHANGED <<analysis_vars, reply, client, cache_vars, fetch_vars>>

\* Another task of the loop looks at the store: how many vectors and how
\* many documents it sees, and the coroutine the loop had left to run it.
query_observe ==
    /\ can_switch(coro)
    /\ reply' = [op |-> "query", index_len |-> Len(index),
                 docs_len |-> Len(documents), during |-> coro.task]
    /\ UNCHANGED <<analysis_vars, coro, store_vars, client, cache_vars, fetch_vars>>

\* Mutations run as tasks of one loop beside tasks that look at the store.
NextTasks ==
    \/ \E batch \in PersistBatches, how \in {"saved", EncodeRaises} :
          add_begin(batch, how)
    \/ add_step
    \/ \E doc_id \in Ids, content \in Contents, how \in {"saved", EncodeRaises} :
          update_begin(doc_id, content, how)
    \/ update_step
    \/ \E doc_id \in Ids : delete_begin(doc_id, "saved")
    \/ delete_step
    \/ query_observe

SpecTasks == Init /\ [][NextTasks]_vars

(***************************************************************************)
(* The analyzer's risk clustering (analysis_agent.py).  A DataFrame is the *)
(* sequence of its rows, each with its index label (the symbol).  What     *)
(* MiniBatchKMeans answers is not determined by the program: any labelling *)
(* of the rows with labels below its n_clusters.                           *)
(***************************************************************************)
risk_levels == <<"low", "medium", "high">>

\* MiniBatchKMeans(n_clusters=len(self.risk_levels)), fixed in __init__.
kmeans_n_clusters == Len(risk_levels)

StockRows == {[price |-> 100, change |-> 1, volume |-> 10],
              [price |-> 150, change |-> 2, volume |-> 20]}

\* pd.DataFrame.from_dict(stocks, orient='index') of up to MaxStocks
\* snapshots: the dict's keys are distinct.
StockFrames ==
    UNION {{[i \in 1..k |-> [symbol |-> AllSymbolsList[i], price |-> r[i].price,
                             change |-> r[i].change, volume |-> r[i].volume]]
              : r \in [1..k -> StockRows]} : k \in 0..MaxStocks}

\* A frame that is never taken for empty.
df_empty_never(df) == FALSE

\* stocks_df.empty
df_empty(df) == df = <<>>

\* stocks_df[['price', 'change', 'volume']] raises KeyError on a frame
\* without rows, which has no columns.
extract_raises(df) == df = <<>>

column(df, c) == [i \in 1..Len(df) |-> df[i][c]]

\* np.std(features, axis=0, ddof=1) of a column is nan for one row and 0 for
\* a constant column; the division then gives nan.
normalized_nan(df) ==
    \/ Len(df) = 1
    \/ \E c \in {"price", "change", "volume"} :
          \A i, j \in 1..Len(df) : column(df, c)[i] = column(df, c)[j]

\* A fit_predict that answers whatever it is given.
kmeans_raises_never(df) == FALSE

\* self.kmeans.fit_predict raises on nan features and on fewer rows than
\* its n_clusters.
kmeans_raises(df) == normalized_nan(df) \/ Len(df) < kmeans_n_clusters

\* The label arrays fit_predict can answer with.
Labelings(df) == [1..Len(df) -> 0..(kmeans_n_clusters - 1)]

\* stocks_df.index[labels == i].tolist(), as positions of rows
cluster_rows(df, labels, i) ==
    SelectSeq([k \in 1..Len(df) |-> k], LAMBDA k : labels[k] = i)

\* np.std of the changes of the rows, kept exact as the integer
\* n * sum(x^2) - sum(x)^2 = (n * std)^2.
RECURSIVE seq_sum(_)
seq_sum(q) == IF q = <<>> THEN 0 ELSE Head(q) + seq_sum(Tail(q))
np_std(q) ==
    Len(q) * seq_sum([i \in 1..Len(q) |-> q[i] * q[i]]) - seq_sum(q) * seq_sum(q)

\* A labelling that counts the levels from the other end.
risk_level_reversed(i) == risk_levels[Len(risk_levels) - i]

\* self.risk_levels[i], i counted from 0.
risk_level_of(i) == risk_levels[i + 1]

\* The loop over range(n_clusters), from label i on.
RECURSIVE group_clusters(_, _, _, _)
group_clusters(df, labels, i, n_clusters) ==
    IF i >= n_clusters THEN <<>>
    ELSE LET rows == cluster_rows(df, labels, i)
             cluster_symbols == [k \in 1..Len(rows) |-> df[rows[k]].symbol]
             cluster_changes == [k \in 1..Len(rows) |-> df[rows[k]].change]
             rest == group_clusters(df, labels, i + 1, n_clusters)
         IN  IF cluster_symbols # <<>>
             THEN <<[risk_level |-> risk_level_of(i),
                     symbols |-> cluster_symbols,
                     average_volatility |->
                        IF Len(cluster_changes) > 1 THEN np_std(cluster_changes)
                        ELSE 0]>> \o rest
             ELSE rest

\* _analyze_risk_clusters(stocks_df), labels being what fit_predict answers
\* when it answers: the list returned, how the call went, and whether and
\* for how many clusters fit_predict was called (the n_clusters of
\* self.kmeans; the local n_clusters is not given to it), with the labels it
\* answered when it did.
_analyze_risk_clusters(df, labels) ==
    IF df_empty(df)
    THEN [clusters |-> <<>>, went |-> "empty", kmeans_called |-> FALSE,
          kmeans_asked |-> 0]
    ELSE IF extract_raises(df)
    THEN [clusters |-> <<>>, went |-> "raised", kmeans_called |-> FALSE,
          kmeans_asked |-> 0]
    ELSE LET n_clusters == Min(Len(risk_levels), Len(df)) IN
         IF n_clusters < 1
         THEN [clusters |-> <<>>, went |-> "no_clusters", kmeans_called |-> FALSE,
               kmeans_asked |-> 0]
         ELSE IF kmeans_raises(df)
         THEN [clusters |-> <<>>, went |-> "raised", kmeans_called |-> TRUE,
               kmeans_asked |-> kmeans_n_clusters]
         ELSE [clusters |-> group_clusters(df, labels, 0, n_clusters),
               went |-> "clustered", kmeans_called |-> TRUE,
               kmeans_asked |-> kmeans_n_clusters, labels |-> labels]

\* One call of _analyze_risk_clusters.
analyze_risk_clusters(df, labels) ==
    /\ reply' = [op |-> "clusters", stocks |-> df,
                 result |-> _analyze_risk_clusters(df, labels)]
    /\ UNCHANGED <<analysis_vars, coro, client, cache_vars, fetch_vars, store_vars>>

NextAnalysis ==
    \E df \in StockFrames :
        \E labels \in Labelings(df) : analyze_risk_clusters(df, labels)

SpecAnalysis == Init /\ [][NextAnalysis]_vars

(***************************************************************************)
(* The curated-context query (retriever_agent.py, get_relevant_context).   *)
(* The context store is a dict of named categories of fixed passages, in   *)
(* insertion order; __init__ makes the one category "market_trends" with   *)
(* three passages.  A passage is named by its position in its category,    *)
(* counted from 1.  The similarities are what np.dot gives for the         *)
(* passages of each category: an input here.                               *)
(***************************************************************************)
\* The similarity scores followed.
Scores == {0, 1, 2}

\* The similarities of the passages of every category of a store: of
\* "market_trends" with one passage or more, and of a second category of
\* one passage when the store has it.
Similarities ==
    UNION {
        {[c \in {"market_trends"} |-> q] : q \in [1..n -> Scores]}
        \cup {[c \in {"market_trends", "company_news"} |->
                  IF c = "market_trends" THEN q ELSE <<r>>]
                : q \in [1..n -> Scores], r \in Scores}
        : n \in 1..MaxPassages}

\* self.context_store.items(): the categories in insertion order.
categories(sims) ==
    IF "company_news" \in DOMAIN sims THEN <<"market_trends", "company_news">>
    ELSE <<"market_trends">>

\* np.argsort(similarities): a permutation of the positions that puts the
\* scores in non-decreasing order; numpy's default sort fixes no order among
\* equal scores.
ArgSorts(q) ==
    {perm \in [1..Len(q) -> 1..Len(q)] :
        /\ \A i, j \in 1..Len(q) : i # j => perm[i] # perm[j]
        /\ \A i, j \in 1..Len(q) : i < j => q[perm[i]] <= q[perm[j]]}

\* A slice taking the first two positions of the order.
first_two(order) == SubSeq(order, 1, Min(2, Len(order)))

\* np.argsort(similarities)[-2:]
top_idx(order) ==
    SubSeq(order, Len(order) - Min(2, Len(order)) + 1, Len(order))

\* The entries appended for one category.
category_contexts(category, q, order) ==
    LET top == top_idx(order) IN
    [k \in 1..Len(top) |->
        [text |-> top[k], category |-> category, relevance |-> q[top[k]]]]

\* The list relevant_contexts after the loop over the categories from the
\* n-th on.
RECURSIVE relevant_contexts(_, _, _)
relevant_contexts(sims, orders, n) ==
    IF n > Len(categories(sims)) THEN <<>>
    ELSE LET category == categories(sims)[n] IN
         category_contexts(category, sims[category], orders[category])
            \o relevant_contexts(sims, orders, n + 1)

\* list.sort order of sorted(..., key=relevance, reverse=True): by relevance
\* from high to low, entries of equal relevance in their old order.
RECURSIVE sorted_reverse(_)
sorted_reverse(list) ==
    IF list = <<>> THEN <<>>
    ELSE LET last == list[Len(list)]
             front == sorted_reverse(SubSeq(list, 1, Len(list) - 1))
             keep == SelectSeq(front, LAMBDA e : e.relevance >= last.relevance)
             move == SelectSeq(front, LAMBDA e : e.relevance < last.relevance)
         IN  keep \o <<last>> \o move

\* get_relevant_context(query): the dict returned, {} when encode raised.
get_relevant_context(sims, orders, encode_ok, t) ==
    IF encode_ok
    THEN [contexts |-> sorted_reverse(relevant_contexts(sims, orders, 1)),
          timestamp |-> t]
    ELSE EmptyDict

\* One call of get_relevant_context.
context_query(sims, orders, encode_ok) ==
    /\ reply' = [op |-> "context", sims |-> sims,
                 result |-> get_relevant_context(sims, orders, encode_ok, now)]
    /\ UNCHANGED <<analysis_vars, coro, client, cache_vars, fetch_vars, store_vars>>

NextContext ==
    \E sims \in Similarities :
        \E orders \in {o \in [DOMAIN sims -> UNION {ArgSorts(sims[c]) : c \in DOMAIN sims}] :
                          \A c \in DOMAIN sims : o[c] \in ArgSorts(sims[c])} :
            \E encode_ok \in BOOLEAN : context_query(sims, orders, encode_ok)

SpecContext == Init /\ [][NextContext]_vars

(***************************************************************************)
(* analyze and its cache (analysis_agent.py), as far as the health probe   *)
(* of the analyzer goes through them.                                      *)
(***************************************************************************)
\* The body of _get_cached_analysis, as it runs on a miss of the memo: the
\* analysis of the tuple it returns.
cached_analysis_body(c, cache_key, t) ==
    IF c[cache_key] # NoEntry
       /\ timedelta_seconds(t, c[cache_key].timestamp) < an_cache_duration
    THEN c[cache_key].analysis
    ELSE None

\* AnalysisAgent._get_cached_analysis(cache_key) at time t behind its
\* lru_cache: the analysis and the new memo.
_get_cached_analysis(c, m, cache_key, t) ==
    LET i == lru_find(m, cache_key) IN
    IF i # 0
    THEN [result |-> m[i].result, lru |-> Append(lru_without(m, i), m[i])]
    ELSE LET r  == cached_analysis_body(c, cache_key, t)
             m2 == Append(m, [key |-> cache_key, result |-> r])
         IN  [result |-> r,
              lru    |-> IF Len(m2) > lru_maxsize THEN Tail(m2) ELSE m2]

\* np.mean, to the whole unit below.
np_mean(q) == seq_sum(q) \div Len(q)

\* _analyze_market_summary(stocks_df)
_analyze_market_summary(df) ==
    IF df = <<>>
    THEN [total_market_cap |-> 0, average_change |-> 0, volatility |-> 0]
    ELSE [total_market_cap |-> seq_sum(column(df, "price")),
          average_change |-> np_mean(column(df, "change")),
          volatility |-> IF Len(df) > 1 THEN np_std(column(df, "change")) ELSE 0]

\* _analyze_sentiment(news_data), the articles given by their sentiments
_analyze_sentiment(articles) ==
    IF articles = <<>>
    THEN [average_sentiment |-> 0, article_count |-> 0]
    ELSE [average_sentiment |-> np_mean(articles), article_count |-> Len(articles)]

\* The dict of the except clause of analyze; confidence in hundredths.
analysis_fallback(t) ==
    [market_summary |-> [total_market_cap |-> 0, average_change |-> 0,
                         volatility |-> 0],
     risk_clusters |-> <<>>,
     sentiment |-> [average_sentiment |-> 0, article_count |-> 0],
     confidence |-> 50,
     sources |-> <<"Error: Data unavailable">>,
     timestamp |-> t]

\* analyze(query, market_data, news_data, context) at time t: the dict
\* returned, the cache and the memo after it.  raises: something in the try
\* block after the cache check raises (the frame cannot be built, the
\* executor cannot start a thread).
analyze(c, m, input, labels, raises, t) ==
    LET r == _get_cached_analysis(c, m, input, t) IN
    IF truthy(r.result)
    THEN [analysis |-> r.result, cache |-> c, lru |-> r.lru]
    ELSE IF raises
    THEN [analysis |-> analysis_fallback(t), cache |-> c, lru |-> r.lru]
    ELSE LET analysis ==
                [market_summary |-> _analyze_market_summary(input.stocks),
                 risk_clusters |-> _analyze_risk_clusters(input.stocks, labels).clusters,
                 sentiment |-> _analyze_sentiment(input.articles),
                 confidence |-> 85,
                 sources |-> <<"Yahoo Finance", "Reuters", "Alpha Vantage">>,
                 timestamp |-> t]
         IN  [analysis |-> analysis,
              cache |-> [c EXCEPT ![input] = [analysis |-> analysis, timestamp |-> t]],
              lru |-> r.lru]

\* One call of analyze; computed tells whether the summaries were made in
\* this call.
analyze_call(input, labels, raises) ==
    LET r == analyze(an_cache, an_lru, input, labels, raises, now) IN
    /\ an_cache' = r.cache
    /\ an_lru' = r.lru
    /\ reply' = [op |-> "analyze", input |-> input, analysis |-> r.analysis,
                 computed |-> ~truthy(_get_cached_analysis(an_cache, an_lru,
                                                           input, now).result),
                 at |-> now]
    /\ UNCHANGED <<coro, client, cache_vars, fetch_vars, store_vars>>

\* The instants the analyzer's clock takes: around its cache duration.
AnalysisInstants == {0, an_cache_duration - 1, an_cache_duration}

AnalysisTick ==
    /\ \E t \in AnalysisInstants : t > now /\ now' = t
    /\ UNCHANGED <<cache, lru, ret>>
    /\ UNCHANGED <<fetch_vars, store_vars, aux_vars>>

\* The memo of _get_cached_analysis is one per class and holds 100 entries:
\* calls with other keys push out the oldest entry.
AnalysisLruEvict ==
    /\ an_lru # <<>>
    /\ an_lru' = Tail(an_lru)
    /\ UNCHANGED <<an_cache, coro, reply, client, cache_vars, fetch_vars, store_vars>>

\* Calls of analyze on one analyzer as its clock moves.
NextAnalyze ==
    \/ \E input \in AnalysisInputs :
          \E labels \in Labelings(input.stocks), raises \in BOOLEAN :
              analyze_call(input, labels, raises)
    \/ AnalysisTick
    \/ AnalysisLruEvict

SpecAnalyze == Init /\ [][NextAnalyze]_vars

(***************************************************************************)
(* The health probes of the three components.                              *)
(***************************************************************************)
\* len(d) of a dict
len(d) == Cardinality(DOMAIN d)

\* The passages __init__ puts in the one category of the context store.
market_trends ==
    <<"Tech stocks have shown strong momentum in recent weeks",
      "Asian markets are experiencing increased volatility",
      "Semiconductor sector faces supply chain challenges">>

\* The similarities of those passages to the query of the probe.
HealthSimilarities ==
    {[c \in {"market_trends"} |-> q] : q \in [1..Len(market_trends) -> Scores]}

\* APIAgent.health_check: nothing is fetched; last_request_time is the 0
\* of __init__.
api_health_check ==
    /\ reply' = [op |-> "health", component |-> "api",
                 result |-> [healthy |-> TRUE, timestamp |-> now,
                             cache_size |-> Cardinality({k \in DOMAIN cache :
                                                           cache[k] # NoEntry}),
                             last_request |-> 0]]
    /\ UNCHANGED <<analysis_vars, coro, client, cache_vars, fetch_vars, store_vars>>

\* RetrieverAgent.health_check
retriever_health_check(sims, orders, encode_ok) ==
    LET context == get_relevant_context(sims, orders, encode_ok, now) IN
    /\ reply' = [op |-> "health", component |-> "retriever",
                 context |-> context,
                 result |-> [healthy |-> len(context) > 0, timestamp |-> now]]
    /\ UNCHANGED <<analysis_vars, coro, client, cache_vars, fetch_vars, store_vars>>

\* AnalysisAgent.health_check
analysis_health_check(labels, raises) ==
    LET r == analyze(an_cache, an_lru, test_input, labels, raises, now) IN
    /\ an_cache' = r.cache
    /\ an_lru' = r.lru
    /\ reply' = [op |-> "health", component |-> "analysis",
                 analysis |-> r.analysis,
                 result |-> [healthy |-> len(r.analysis) > 0, timestamp |-> now]]
    /\ UNCHANGED <<coro, client, cache_vars, fetch_vars, store_vars>>

\* The probes, beside writes to the fetcher's cache.
NextHealth ==
    \/ api_health_check
    \/ \E sims \in HealthSimilarities :
          \E order \in ArgSorts(sims["market_trends"]), encode_ok \in BOOLEAN :
              retriever_health_check(sims, [c \in {"market_trends"} |-> order],
                                     encode_ok)
    \/ \E labels \in Labelings(test_input.stocks), raises \in BOOLEAN :
          analysis_health_check(labels, raises)
    \/ \E k \in Symbols, d \in Datas : CachePut(k, d)

SpecHealth == Init /\ [][NextHealth]_vars

(***************************************************************************)
(* Properties.                                                             *)
(***************************************************************************)

\* C1: a put(k, v) followed at once by get(k) returns v, whatever gets and
\* puts came before on the same cache.
C1_PutThenGet ==
    [][(ret.op = "put" /\ ret'.op = "get" /\ ret'.key = ret.key
          /\ ret'.at = ret.at)
       => ret'.value = ret.value]_vars

\* C2: a get(k) made cache_duration seconds or more after the last
\* put(k, v) returns absent, whatever an earlier get(k) returned.
C2_ExpiredIsAbsent ==
    (ret.op = "get" /\ cache[ret.key] # NoEntry
       /\ ret.at - cache[ret.key].timestamp >= cache_duration)
    => ret.value = None

Requested == {symbols[i] : i \in 1..Len(symbols)}
Distinct(seq) == \A i, j \in 1..Len(seq) : i # j => seq[i] # seq[j]

\* C3, as claimed: the returned mapping has exactly as many entries as the
\* symbol list is long, each a snapshot or None.
C3_ExactlyN ==
    phase = "returned" =>
        /\ Cardinality(DOMAIN combined_data) = Len(symbols)
        /\ \A k \in DOMAIN combined_data : combined_data[k] \in Datas \cup {None}

\* C3, amended: the returned mapping has exactly one entry per distinct
\* requested symbol (so as many entries as the list is long when its symbols
\* are pairwise distinct), each a snapshot or None.
C3_OnePerSymbol ==
    phase = "returned" =>
        /\ DOMAIN combined_data = Requested
        /\ \A k \in DOMAIN combined_data : combined_data[k] \in Datas \cup {None}
        /\ Distinct(symbols) => Cardinality(DOMAIN combined_data) = Len(symbols)

\* A call over two different symbols has returned, one failed, one fetched.
C3_Witness ==
    /\ phase = "returned"
    /\ Len(symbols) = 2
    /\ symbols[1] # symbols[2]
    /\ combined_data[symbols[1]] = None
    /\ combined_data[symbols[2]] \in Datas

\* The tasks whose external request is in flight.
InFlight == {i \in 1..Len(tasks) : tasks[i].pc \in {"ticker", "info"}}

\* C4: during one call, at most semaphore_limit external requests are in
\* flight, however many symbols were asked for.
C4_BoundedConcurrency == Cardinality(InFlight) <= semaphore_limit

\* A task beyond the limit got its permit from a release and has its request
\* in flight beside semaphore_limit - 1 others.
C4_Witness ==
    /\ Len(symbols) > semaphore_limit
    /\ Cardinality(InFlight) = semaphore_limit
    /\ \E i \in InFlight : i > semaphore_limit

\* What task i returns for its symbol, from its own cache check and its own
\* answer from the source alone.
own_result(i) ==
    IF truthy(tasks[i].cached) THEN tasks[i].cached
    ELSE IF tasks[i].info = Raised THEN None
    ELSE build_data(tasks[i].info)

is_last(i) == \A j \in (i + 1)..Len(symbols) : symbols[j] # symbols[i]

C6_CacheReuse ==
    [][\A i \in 1..Len(tasks) :
          (phase = "gather" /\ tasks[i].pc = "new" /\ tasks'[i].pc = "ticker")
          => ~(/\ cache[symbols[i]] # NoEntry
               /\ now - cache[symbols[i]].timestamp < cache_duration)]_vars

\* C7: after every completed add, update or delete, gone well or not, the
\* index holds as many vectors as the document list holds documents.
C7_LengthInvariant == Len(index) = Len(documents)

\* An update of the first of two documents has completed, its embedding
\* made and the save gone either way.
C7_Witness ==
    /\ store_op.op = "update"
    /\ store_op.how # EncodeRaises
    /\ store_op.doc_idx = 1
    /\ Len(documents) = 2
    /\ Len(index) = 2

\* C8: after any adds, updates and deletes, the vector at every position of
\* the index is the embedding of the current content of the document at
\* that position of the list.
C8_PositionAlignment ==
    /\ Len(index) = Len(documents)
    /\ \A p \in 1..Len(documents) : index[p] = embed(doc_content(documents[p]))

Ids_of(docs) == [i \in 1..Len(docs) |-> docs[i].id]

\* The squared L2 distance IndexFlatL2 ranks by.
l2(u, v) == (u[1] - v[1]) * (u[1] - v[1]) + (u[2] - v[2]) * (u[2] - v[2])

\* The positions of idx nearest to the vector v.
nearest(idx, v) ==
    {p \in 1..Len(idx) : \A q \in 1..Len(idx) : l2(idx[p], v) <= l2(idx[q], v)}

\* C9: an update(id, new_content) that goes through, on a store of documents
\* with distinct ids that holds id and is aligned position by position,
\* leaves the number of documents as it was, the document with that id
\* carrying new_content, and an index entry nearest to the embedding of
\* new_content at the position of that document.
C9_UpdateConsistency ==
    [][(/\ store_op'.op = "update"
        /\ store_op'.how # EncodeRaises
        /\ store_op'.doc_idx # 0
        /\ Distinct(Ids_of(documents))
        /\ C8_PositionAlignment)
       => /\ Len(documents') = Len(documents)
          /\ \A p \in 1..Len(documents') :
                documents'[p].id = store_op'.id
                => doc_content(documents'[p]) = store_op'.content
          /\ \E p \in nearest(index', embed(store_op'.content)) :
                /\ p \in 1..Len(documents')
                /\ documents'[p].id = store_op'.id]_vars

\* C10: on a store built by adds of documents with distinct ids, a
\* delete(id) of a present id takes one document from the list and one vector
\* from the index, leaves no document with that id, and leaves every
\* remaining document, in its old order, at the position of its own vector,
\* so that no position resolves to the deleted document.
C10_DeleteRemoves ==
    [][(/\ store_op'.op = "delete"
        /\ store_op'.doc_idx # 0
        /\ Distinct(Ids_of(documents)))
       => /\ Len(documents') = Len(documents) - 1
          /\ Len(index') = Len(index) - 1
          /\ \A p \in 1..Len(documents') : documents'[p].id # store_op'.id
          /\ \A p \in 1..Len(index') :
                /\ p \in 1..Len(documents')
                /\ index'[p] = embed(doc_content(documents'[p]))
          /\ \A p \in 1..Len(documents) :
                documents[p].id # store_op'.id
                => \E q \in 1..Len(documents') : documents'[q] = documents[p]]_vars

\* The first of two added documents has been deleted and the one left
\* stands at the position of its own vector.
C10_Witness ==
    /\ store_op.op = "delete"
    /\ store_op.doc_idx = 1
    /\ Len(documents) = 1
    /\ documents[1].id # store_op.id
    /\ index = <<embed(doc_content(documents[1]))>>

\* C11: when an add on a store aligned position by position has saved and
\* a fresh instance then loads, the instance holds the same document list and
\* the same vectors at the same positions, and for every document an index
\* entry nearest to the embedding of its content stands at the position of a
\* document with its id.
C11_RoundTrip ==
    [][(/\ store_op.op = "add"
        /\ store_op.how = "saved"
        /\ readable(disk_index) /\ readable(disk_docs)
        /\ C8_PositionAlignment
        /\ retriever_init)
       => /\ documents' = documents
          /\ index' = index
          /\ \A p \in 1..Len(documents') :
                \E q \in nearest(index', embed(doc_content(documents'[p]))) :
                    /\ q \in 1..Len(documents')
                    /\ documents'[q].id = documents'[p].id]_vars

\* A fresh instance has loaded two documents and their two vectors from the
\* files an add saved.
C11_Witness ==
    /\ store_op.op = "load"
    /\ Len(documents) = 2
    /\ readable(disk_index) /\ readable(disk_docs)
    /\ documents = pickle_load(disk_docs)
    /\ index = read_index(disk_index)
    /\ C8_PositionAlignment

\* C12: a load that finds either file missing or unreadable completes and
\* leaves an empty index and an empty document list.
C12_LoadFallback ==
    /\ [][(retriever_init /\ (~readable(disk_index) \/ ~readable(disk_docs)))
          => index' = <<>> /\ documents' = <<>>]_vars
    /\ [](ENABLED retriever_init)

\* A fresh instance found a readable index file holding vectors beside an
\* unreadable documents file, and is empty.
C12_Witness ==
    /\ store_op.op = "load"
    /\ readable(disk_index)
    /\ read_index(disk_index) # <<>>
    /\ disk_docs = TornFile
    /\ index = <<>>
    /\ documents = <<>>

\* The symbols of the batch of the last clustering call, and for each how
\* many of the returned clusters list it.
batch_symbols == {reply.stocks[i].symbol : i \in 1..Len(reply.stocks)}
listed_in(sym) ==
    Cardinality({c \in 1..Len(reply.result.clusters) :
                    \E k \in 1..Len(reply.result.clusters[c].symbols) :
                        reply.result.clusters[c].symbols[k] = sym})

\* C13: for a batch of M >= 1 snapshots the returned list has at most
\* min(3, M) clusters, none of them empty, and every symbol of the batch is
\* in exactly one of them.
C13_ClusterPartition ==
    (reply.op = "clusters" /\ Len(reply.stocks) >= 1)
    => /\ Len(reply.result.clusters) <= Min(Len(risk_levels), Len(reply.stocks))
       /\ \A c \in 1..Len(reply.result.clusters) :
             reply.result.clusters[c].symbols # <<>>
       /\ \A sym \in batch_symbols : listed_in(sym) = 1

\* C14: a batch of no snapshots gives the empty cluster list as a normal
\* return: nothing raised inside the call and fit_predict not called.
C14_EmptyBatch ==
    (reply.op = "clusters" /\ reply.stocks = <<>>)
    => /\ reply.result.clusters = <<>>
       /\ reply.result.went = "empty"
       /\ ~reply.result.kmeans_called

\* The clustering has been called on a batch of no snapshots.
C14_Witness ==
    /\ reply.op = "clusters"
    /\ reply.stocks = <<>>
    /\ reply.result.clusters = <<>>

\* C15: a call of _fetch_concurrent_data that has started returns, even when
\* the source never answers a request.
C15_FetchReturns == (phase = "gather") ~> (phase = "returned")

\* C16: a task that looks at the store while add, update and delete tasks
\* run on the same loop sees it as it was before a mutation or as it is after
\* one, never inside one, and sees as many vectors as documents.
C16_MutationAtomicity ==
    reply.op = "query"
    => /\ reply.during = "none"
       /\ reply.index_len = reply.docs_len

\* A task has looked at the store after an update of one of two documents
\* went through.
C16_Witness ==
    /\ reply.op = "query"
    /\ reply.index_len = 2
    /\ store_op.op = "update"
    /\ store_op.doc_idx # 0
    /\ store_op.how = "saved"
    /\ coro = NoFrame

\* C17: an add or an update in which the embedding model raises returns and
\* leaves the index, the document list and the two files as they were.
\* (Every call on the store records itself in store_op.)
C17_EmbeddingFailure ==
    [][(store_op'.op \in {"add", "update"} /\ store_op'.how = EncodeRaises)
       => UNCHANGED <<index, documents, disk_index, disk_docs>>]_vars

\* The embedding model raised in an update of a document the store of two
\* documents holds.
C17_Witness ==
    /\ store_op.op = "update"
    /\ store_op.how = EncodeRaises
    /\ store_op.doc_idx # 0
    /\ Len(index) = 2
    /\ Len(documents) = 2

\* The entries of the last answer that name category c.
answer_of(c) ==
    SelectSeq(reply.result.contexts, LAMBDA e : e.category = c)

\* C20: a query that is answered returns, for each category, min(2, number
\* of its passages) different passages of it, each with its own similarity
\* as relevance and none scoring below a passage left out, and the whole
\* list runs from the highest relevance to the lowest.
C20_ContextRanking ==
    (reply.op = "context" /\ reply.result # EmptyDict)
    => /\ \A c \in DOMAIN reply.sims :
            LET got == answer_of(c)
                q == reply.sims[c]
            IN  /\ Len(got) = Min(2, Len(q))
                /\ \A k \in 1..Len(got) :
                      /\ got[k].text \in 1..Len(q)
                      /\ got[k].relevance = q[got[k].text]
                /\ \A k, l \in 1..Len(got) : k # l => got[k].text # got[l].text
                /\ \A p \in 1..Len(q) :
                      (\A k \in 1..Len(got) : got[k].text # p)
                      => \A k \in 1..Len(got) : q[p] <= got[k].relevance
       /\ \A e \in 1..Len(reply.result.contexts) :
            reply.result.contexts[e].category \in DOMAIN reply.sims
       /\ \A e \in 1..(Len(reply.result.contexts) - 1) :
            reply.result.contexts[e].relevance
               >= reply.result.contexts[e + 1].relevance

\* A query over two categories, the first of three passages scoring 0, 2
\* and 1, was answered with three entries, the second category's in the
\* middle.
C20_Witness ==
    /\ reply.op = "context"
    /\ reply.result # EmptyDict
    /\ DOMAIN reply.sims = {"market_trends", "company_news"}
    /\ reply.sims["market_trends"] = <<0, 2, 1>>
    /\ Len(reply.result.contexts) = 3
    /\ reply.result.contexts[1].text = 2
    /\ reply.result.contexts[2].category = "company_news"
    /\ reply.result.contexts[3].text = 3

\* The source's answer lacks the price, the change or the volume.
lacks_field(info) ==
    \E name \in {"last_price", "regular_market_change", "last_volume"} :
        ~hasattr(info, name)

\* C19: when the source answers for a symbol with a payload that lacks the
\* price, the change or the volume, the call returns None for the symbol
\* and the cache holds no snapshot made from that payload.
C19_MalformedIsNone ==
    phase = "returned" =>
        \A i \in 1..Len(symbols) :
            (/\ is_last(i)
             /\ ~truthy(tasks[i].cached)
             /\ tasks[i].info \in Infos
             /\ lacks_field(tasks[i].info))
            => /\ combined_data[symbols[i]] = None
               /\ \/ cache[symbols[i]] = NoEntry
                  \/ cache[symbols[i]].data # build_data(tasks[i].info)

\* C18: a probe answers healthy only when it has carried out its
\* component's operation during the probe and the operation went well: the
\* fetcher's probe a fetch, the store's probe a query that was answered, the
\* analyzer's probe an analysis that did not end in the except clause.
C18_ProbesAreReal ==
    /\ [][(api_health_check /\ reply'.result.healthy)
          => fetch_vars' # fetch_vars]_vars
    /\ []((reply.op = "health" /\ reply.component = "retriever")
          => (reply.result.healthy <=> reply.context # EmptyDict))
    /\ []((reply.op = "health" /\ reply.component = "analysis")
          => (reply.result.healthy
                <=> reply.analysis.sources # analysis_fallback(now).sources))

\* Whether a document of the list has the id.
has_id(docs, doc_id) == \E p \in 1..Len(docs) : docs[p].id = doc_id

\* C21: an update or a delete of an id no document has completes and leaves
\* the index, the document list and the two files as they were.
C21_AbsentIdNoOp ==
    /\ [][(/\ store_op'.op \in {"update", "delete"}
            /\ ~has_id(documents, store_op'.id))
           => UNCHANGED <<index, documents, disk_index, disk_docs>>]_vars
    /\ [](\A doc_id \in Ids :
            /\ ENABLED update_document(doc_id, "x", "saved")
            /\ ENABLED delete_document(doc_id, "saved"))

\* An update of an id the store of one document does not hold has completed.
C21_Witness ==
    /\ store_op.op = "update"
    /\ store_op.doc_idx = 0
    /\ Len(documents) = 1
    /\ Len(index) = 1
    /\ ~has_id(documents, store_op.id)

\* Task i of the last call got its snapshot from the source.
sourced(i) == ~truthy(tasks[i].cached) /\ tasks[i].info \in Infos

\* C22, as claimed: when the call returns a snapshot for a symbol that a
\* request of this call obtained, the cache holds that snapshot under the
\* symbol.
C22_WriteBack ==
    phase = "returned" =>
        \A i \in 1..Len(symbols) :
            (is_last(i) /\ sourced(i))
            => /\ cache[symbols[i]] # NoEntry
               /\ cache[symbols[i]].data = combined_data[symbols[i]]

\* C22, amended: a task that obtains a snapshot from the source writes it to
\* the cache under its symbol, with the time of the write, in the step in
\* which it returns it; the cache is written only during a call and only
\* with the current time; and when the call returns, the cache holds under
\* every symbol so obtained a snapshot a request of this call obtained for
\* it, which is the returned one when the symbol is listed once.
C22_WriteBackPerTask ==
    /\ [][\A i \in 1..Len(tasks) :
            (/\ phase = "gather"
             /\ tasks[i].pc = "info"
             /\ tasks'[i].pc = "done"
             /\ tasks'[i].info \in Infos)
            => cache'[symbols[i]] = [data |-> tasks'[i].result[symbols[i]],
                                     timestamp |-> now]]_vars
    /\ [][\A s \in AllSymbols :
            cache'[s] # cache[s]
            => phase = "gather" /\ cache'[s].timestamp = now]_vars
    /\ [](phase = "returned" =>
            \A i \in 1..Len(symbols) :
                sourced(i)
                => /\ cache[symbols[i]] # NoEntry
                   /\ cache[symbols[i]].timestamp <= now
                   /\ \E j \in 1..Len(symbols) :
                         /\ symbols[j] = symbols[i]
                         /\ sourced(j)
                         /\ cache[symbols[i]].data = tasks[j].result[symbols[i]]
                   /\ (\A j \in 1..Len(symbols) : j # i => symbols[j] # symbols[i])
                      => cache[symbols[i]].data = combined_data[symbols[i]])

\* A call made after the clock had moved has returned a snapshot it got from
\* the source for the first of two different symbols, and the cache holds it
\* with a timestamp of that time.
C22_Witness ==
    /\ phase = "returned"
    /\ Len(symbols) = 2
    /\ symbols[1] # symbols[2]
    /\ sourced(1)
    /\ combined_data[symbols[1]] \in Datas
    /\ cache[symbols[1]].data = combined_data[symbols[1]]
    /\ cache[symbols[1]].timestamp > 0

\* C23: get_market_data returns a "stocks" map that is not empty and holds
\* no None; the map is the one SAMPLE placeholder exactly when the fetch
\* raised or every requested symbol came back None, and otherwise holds
\* exactly the symbols that came back with a snapshot, each with it; the dict
\* _fetch_concurrent_data returns never has the key SAMPLE.
C23_Placeholder ==
    /\ "SAMPLE" \notin DOMAIN combined_data
    /\ reply.op = "market_data" =>
        LET stocks == reply.result.stocks
            fetched == reply.fetched
            got == {k \in DOMAIN fetched : fetched[k] # None}
        IN  /\ DOMAIN stocks # {}
            /\ \A k \in DOMAIN stocks : stocks[k] # None
            /\ (stocks = sample_data) <=> (reply.raised \/ got = {})
            /\ stocks # sample_data
               => /\ DOMAIN stocks = got
                  /\ \A k \in got : stocks[k] = fetched[k]
            /\ ~reply.raised => DOMAIN fetched = {market_symbols[i] : i \in 1..Len(market_symbols)}

\* get_market_data has returned the placeholder after the requests for all
\* four symbols failed.
C23_Witness ==
    /\ reply.op = "market_data"
    /\ ~reply.raised
    /\ \A k \in DOMAIN reply.fetched : reply.fetched[k] = None
    /\ DOMAIN reply.fetched # {}
    /\ reply.result.stocks = sample_data

\* The step is an add, an update or a delete that went as far as
\* _save_index, in which pickle.dump raised.
save_failed_step ==
    /\ disk_docs' = TornFile
    /\ \/ store_op'.op = "add" /\ store_op'.how = "docs_torn"
       \/ store_op'.op = "update" /\ store_op'.doc_idx # 0
                                  /\ store_op'.how = "docs_torn"
       \/ store_op'.op = "delete" /\ store_op'.doc_idx # 0

\* C24: an add, an update or a delete whose save fails, on a store aligned
\* position by position, completes and leaves in memory as many vectors as
\* documents and every vector at the position of its document, with its
\* current content.
C24_SaveFailureNonFatal ==
    [][(save_failed_step /\ C8_PositionAlignment)
       => /\ Len(index') = Len(documents')
          /\ \A p \in 1..Len(documents') :
                index'[p] = embed(doc_content(documents'[p]))]_vars

\* C25: whatever adds and saves came before, a save that failed between the
\* two files included, a store that has just loaded holds as many vectors as
\* documents.
C25_LoadedPairConsistent ==
    store_op.op = "load" => Len(index) = Len(documents)

\* C26: when the clustering is called on a batch of M snapshots, it is asked
\* for min(3, M) clusters.
C26_RequestedClusters ==
    (reply.op = "clusters" /\ reply.result.kmeans_called)
    => reply.result.kmeans_asked = Min(Len(risk_levels), Len(reply.stocks))

\* The position of a risk level in the fixed order, counted from 0.
level_index(level) == CHOOSE i \in 0..(Len(risk_levels) - 1) : risk_levels[i + 1] = level

\* C27: in every returned cluster list, each cluster carries a level of the
\* fixed order low, medium, high and lists exactly the symbols whose
\* clustering label is the position of that level, at least one; the levels
\* of the list run in strictly increasing order, so none appears twice.
C27_PositionalLabels ==
    reply.op = "clusters" =>
        LET clusters == reply.result.clusters IN
        /\ \A c \in 1..Len(clusters) :
              /\ \E i \in 1..Len(risk_levels) : clusters[c].risk_level = risk_levels[i]
              /\ clusters[c].symbols # <<>>
              /\ LET rows == cluster_rows(reply.stocks, reply.result.labels,
                                          level_index(clusters[c].risk_level))
                 IN  clusters[c].symbols =
                        [k \in 1..Len(rows) |-> reply.stocks[rows[k]].symbol]
        /\ \A c, d \in 1..Len(clusters) :
              c < d => level_index(clusters[c].risk_level)
                          < level_index(clusters[d].risk_level)

\* Three snapshots were clustered with labels 2, 0, 2: the list has the
\* cluster "low" of the second symbol, then the cluster "high" of the other
\* two, and none for "medium".
C27_Witness ==
    /\ reply.op = "clusters"
    /\ reply.result.went = "clustered"
    /\ reply.result.labels = <<2, 0, 2>>
    /\ Len(reply.result.clusters) = 2
    /\ reply.result.clusters[1].risk_level = "low"
    /\ reply.result.clusters[1].symbols = <<reply.stocks[2].symbol>>
    /\ reply.result.clusters[2].risk_level = "high"
    /\ Len(reply.result.clusters[2].symbols) = 2

\* C28: a call in which the extraction of the features, the normalization
\* or fit_predict raised returns the empty list (the exception is caught
\* inside the call), and a list that is returned not empty lists every symbol
\* of the batch.
C28_AllOrNothing ==
    reply.op = "clusters" =>
        /\ reply.result.went = "raised" => reply.result.clusters = <<>>
        /\ reply.result.clusters # <<>>
           => \A sym \in batch_symbols : listed_in(sym) >= 1

\* fit_predict raised on a batch of two snapshots and the call returned the
\* empty list.
C28_Witness ==
    /\ reply.op = "clusters"
    /\ Len(reply.stocks) = 2
    /\ reply.result.kmeans_called
    /\ reply.result.went = "raised"
    /\ reply.result.clusters = <<>>

\* C29: a call of analyze in which nothing raises, made less than the cache
\* duration after an earlier call with the same data stored its result,
\* returns that stored result, and makes no summary, clusters or sentiment
\* of its own.
C29_AnalysisCacheReuse ==
    [][\A input \in AnalysisInputs :
          (/\ an_cache[input] # NoEntry
           /\ now - an_cache[input].timestamp < an_cache_duration
           /\ \E labels \in Labelings(input.stocks) :
                 analyze_call(input, labels, FALSE))
          => /\ reply'.analysis = an_cache[input].analysis
             /\ ~reply'.computed
             /\ an_cache' = an_cache]_vars

\* The requests in flight in any call: the tasks that hold a permit of
\* their call's semaphore and wait for the source.
InFlightAcrossCalls ==
    {<<c, i>> \in CallIds \X (1..ManyCount) :
        /\ i <= Len(calls[c].tasks)
        /\ calls[c].tasks[i].pc \in {"ticker", "info"}}

request_fails(i) ==
    /\ phase = "gather"
    /\ tasks[i].pc \in {"ticker", "info"}
    /\ tasks'[i].pc = "done"
    /\ tasks'[i].info = Raised

\* Task i's request ends in this step with an answer of the source.
request_succeeds(i) ==
    /\ phase = "gather"
    /\ tasks[i].pc = "info"
    /\ tasks'[i].pc = "done"
    /\ tasks'[i].info \in Infos

\* C32, as claimed: once the request for a symbol has failed in a call, the
\* cache's entry for the symbol is as it was for the rest of the call.
C32_FailedKeyUntouched ==
    [][\A i \in 1..Len(tasks) :
          (/\ phase = "gather"
           /\ tasks[i].pc = "done"
           /\ tasks[i].info = Raised)
          => cache'[symbols[i]] = cache[symbols[i]]]_vars

\* C32, amended: the step in which a request fails leaves the whole cache as
\* it was, and an entry of the cache changes during a call only in the step in
\* which a request of this call for that very symbol succeeds; so the entry
\* of a symbol is untouched by a call unless one of its requests for it
\* succeeded.
C32_FailureWritesNothing ==
    /\ [][\A i \in 1..Len(tasks) : request_fails(i) => cache' = cache]_vars
    /\ [][\A k \in AllSymbols :
            cache'[k] # cache[k]
            => \E i \in 1..Len(tasks) : symbols[i] = k /\ request_succeeds(i)]_vars

\* A call has returned None for a symbol whose request raised, and the cache
\* still holds for it the entry an earlier call wrote.
C32_Witness ==
    /\ phase = "returned"
    /\ Len(symbols) = 1
    /\ tasks[1].info = Raised
    /\ combined_data[symbols[1]] = None
    /\ cache[symbols[1]] # NoEntry
    /\ cache[symbols[1]].timestamp < now


\* ---------------------------------------------------------------------
\* app.py: make_api_request, the front end's request with retries
\* ---------------------------------------------------------------------

\* The endpoints the front end asks, with the method of each call site.
Endpoints == {[endpoint |-> "health", method |-> "get"],
              [endpoint |-> "morning-brief", method |-> "get"],
              [endpoint |-> "analyze", method |-> "post"]}

\* Bodies response.json() decodes; the call sites read them with .get, so
\* they are JSON objects (one of them the empty object).
JsonBodies == {[status |-> "operational"], EmptyDict}

\* How one requests.get / requests.post followed by raise_for_status and
\* response.json() ends: a decoded body, requests.Timeout, or another
\* requests.RequestException (connection error, HTTP error status, a body
\* that is not JSON).
AttemptOutcomes == {"ok", "timeout", "failure"}

\* What one attempt leaves in the call's history: how it ended and, for a
\* decoded response, its body.
attempt_record(outcome, body) ==
    [kind |-> outcome, body |-> IF outcome = "ok" THEN body ELSE None]

\* A retry loop that waits the same delay after every failed attempt.
retry_wait_flat(attempt) == RETRY_DELAY

\* The argument of time.sleep after the failed attempt numbered attempt
\* (range(max_retries) counts from 0).
retry_wait(attempt) == RETRY_DELAY * (attempt + 1)

\* The call is made: the for loop is entered with attempt = 0, or, for
\* max_retries = 0, is skipped and the function falls off its end.
make_api_request_begin(e, n) ==
    /\ client.pc \in {"idle", "returned"}
    /\ client' = IF n = 0
                 THEN [pc |-> "returned", endpoint |-> e.endpoint,
                       method |-> e.method, max_retries |-> n, attempt |-> 0,
                       outcomes |-> <<>>, slept |-> <<>>, result |-> None]
                 ELSE [pc |-> "request", endpoint |-> e.endpoint,
                       method |-> e.method, max_retries |-> n, attempt |-> 0,
                       outcomes |-> <<>>, slept |-> <<>>, result |-> None]
    /\ UNCHANGED <<cache_vars, fetch_vars, store_vars, coro, reply,
                   analysis_vars>>

\* One pass of the try block: the request is sent and ends with outcome.
\* A decoded body is returned at once; a Timeout or RequestException on the
\* last attempt returns None, on an earlier one goes to time.sleep.
make_api_request_attempt(outcome, body) ==
    /\ client.pc = "request"
    /\ client' =
         IF outcome = "ok"
         THEN [client EXCEPT !.pc = "returned",
                             !.outcomes = Append(@, attempt_record(outcome, body)),
                             !.result = body]
         ELSE IF client.attempt = client.max_retries - 1
         THEN [client EXCEPT !.pc = "returned",
                             !.outcomes = Append(@, attempt_record(outcome, body)),
                             !.result = None]
         ELSE [client EXCEPT !.pc = "sleep",
                             !.outcomes = Append(@, attempt_record(outcome, body)),
                             !.slept = Append(@, retry_wait(client.attempt))]
    /\ UNCHANGED <<cache_vars, fetch_vars, store_vars, coro, reply,
                   analysis_vars>>

\* time.sleep returns and the for loop takes the next attempt.
make_api_request_wake ==
    /\ client.pc = "sleep"
    /\ client' = [client EXCEPT !.pc = "request", !.attempt = @ + 1]
    /\ UNCHANGED <<cache_vars, fetch_vars, store_vars, coro, reply,
                   analysis_vars>>

NextClient ==
    \/ \E e \in Endpoints, n \in 0..MaxRetries : make_api_request_begin(e, n)
    \/ \E outcome \in AttemptOutcomes, body \in JsonBodies :
           make_api_request_attempt(outcome, body)
    \/ make_api_request_wake

\* Every request is given timeout=timeout and time.sleep is finite, so an
\* attempt in progress ends and a sleep in progress returns.
FairClient ==
    /\ WF_vars(\E outcome \in AttemptOutcomes, body \in JsonBodies :
                   make_api_request_attempt(outcome, body))
    /\ WF_vars(make_api_request_wake)

SpecClient == Init /\ [][NextClient]_vars /\ FairClient


\* The attempts of the call in progress that ended with an exception.
failed_attempts ==
    {i \in 1..Len(client.outcomes) : client.outcomes[i].kind # "ok"}

\* The state of a call of make_api_request with max_retries >= 1 agrees
\* with the bounded retry loop.
BoundedRetry ==
    (client.pc # "idle" /\ client.max_retries >= 1) =>
        LET n == client.max_retries
            sent == Len(client.outcomes)
        IN /\ sent <= n
           /\ \A i \in 1..sent :
                  client.outcomes[i].kind = "ok" =>
                      /\ i = sent
                      /\ client.pc = "returned"
                      /\ client.result = client.outcomes[i].body
                      /\ client.result \in JsonBodies
           /\ (client.pc = "returned" /\ client.result = None) =>
                  /\ sent = n
                  /\ failed_attempts = 1..n
           /\ client.pc = "returned" =>
                  \/ client.result = None
                  \/ sent >= 1 /\ client.outcomes[sent].kind = "ok"
           /\ Len(client.slept) =
                  Cardinality({i \in failed_attempts : i < n})
           /\ \A i \in 1..Len(client.slept) :
                  client.slept[i] = RETRY_DELAY * i
           /\ client.pc = "sleep" => Len(client.slept) = sent

AnalysisJobs == {"market_summary", "risk_clusters", "sentiment"}

\* The event loop is inside analyze, at one of the future.result() calls.
analyze_waiting == coro # NoFrame /\ coro.task = "analyze"

\* The event loop turns to the analyze task: the cache is asked, and on a
\* miss the frame is built, the three jobs are submitted and the loop's
\* thread calls market_summary_future.result().  The tasks of a gather are
\* started back to back, so the turn comes before or after all of them.
analyze_submit(input) ==
    /\ coro = NoFrame
    /\ phase = "gather" => all_started
    /\ LET r == _get_cached_analysis(an_cache, an_lru, input, now) IN
       /\ an_lru' = r.lru
       /\ IF truthy(r.result)
          THEN /\ reply' = [op |-> "analyze", input |-> input,
                            analysis |-> r.result, computed |-> FALSE,
                            at |-> now]
               /\ coro' = NoFrame
          ELSE /\ coro' = [task |-> "analyze", pc |-> "result",
                           input |-> input, done |-> {}]
               /\ UNCHANGED reply
    /\ UNCHANGED <<an_cache, client, cache_vars, fetch_vars, store_vars>>

\* A worker thread of analyze's executor finishes one of the jobs.
analysis_job_done(job) ==
    /\ analyze_waiting
    /\ job \notin coro.done
    /\ coro' = [coro EXCEPT !.done = @ \cup {job}]
    /\ UNCHANGED <<analysis_vars, reply, client, cache_vars, fetch_vars,
                   store_vars>>

\* All three jobs are done: the result() calls return (or the first that
\* raised raises, once the with block has joined the workers), the analysis
\* is cached and analyze returns.
analyze_collect(labels, raises) ==
    /\ analyze_waiting
    /\ coro.done = AnalysisJobs
    /\ LET r == analyze(an_cache, an_lru, coro.input, labels, raises, now) IN
       /\ an_cache' = r.cache
       /\ an_lru' = r.lru
       /\ reply' = [op |-> "analyze", input |-> coro.input,
                    analysis |-> r.analysis, computed |-> TRUE, at |-> now]
    /\ coro' = NoFrame
    /\ UNCHANGED <<client, cache_vars, fetch_vars, store_vars>>

\* A step of the fetch_single coroutine of task i: the loop resumes it
\* with the outcome of the worker it awaits.
fetch_single_step(i) ==
    /\ can_switch(coro)
    /\ \/ \E ok \in BOOLEAN : TickerDone(i, ok)
       \/ \E info \in Infos \cup {Raised} : InfoDone(i, info)

\* One event loop on which one fetch_all and one analyze are run as tasks.
NextLoop ==
    \/ \E syms \in SymbolLists :
           can_switch(coro) /\ phase = "idle" /\ BeginFetch(syms)
    \/ \E i \in TaskIds : can_switch(coro) /\ StartTask(i)
    \/ \E i \in TaskIds : fetch_single_step(i)
    \/ can_switch(coro) /\ GatherReturn
    \/ \E input \in AnalysisInputs :
           reply.op = "none" /\ analyze_submit(input)
    \/ \E job \in AnalysisJobs : analysis_job_done(job)
    \/ /\ analyze_waiting
       /\ \E labels \in Labelings(coro.input.stocks), raises \in BOOLEAN :
              analyze_collect(labels, raises)

SpecLoop == Init /\ [][NextLoop]_vars

\* Task i of the gather awaits a worker of the thread pool that is running
\* its call.
fetch_in_progress(i) ==
    /\ phase = "gather"
    /\ all_started
    /\ i <= Len(tasks)
    /\ tasks[i].pc \in {"ticker", "info"}
    /\ is_running(pool_running, i)

\* C31: while analyze waits for the three jobs it handed to its worker
\* pool, a fetch_single coroutine in progress on the same event loop can
\* take its next step.
C31_LoopNotBlocked ==
    \A i \in TaskIds :
        (analyze_waiting /\ fetch_in_progress(i)) => ENABLED fetch_single_step(i)

=============================================================================
